---- MODULE Spec2Model ----
(***************************************************************************)
(* ExcelService (src/unnamed/part_003): the batch executor                 *)
(* executeOperations, the dispatcher executeOperation, the handlers with   *)
(* the inverses they return, undo() and the bounded undo stack.            *)
(*                                                                         *)
(* The workbook is the Office.js document the handlers talk to.  A cell    *)
(* holds a content string: "" (empty), a plain value ("1", "2", "3") or a  *)
(* formula ("=1", "=2", "=3", a constant formula whose computed value is   *)
(* the digit).  Every call of a handler or of an inverse is one Excel.run  *)
(* and is one step of the model; the awaits between them are the           *)
(* suspension points.                                                      *)
(***************************************************************************)
EXTENDS Integers, Sequences, FiniteSets, TLC

VARIABLES doc, undoStack, redoStack, tasks, nExec, nUndo, history, aiService

vars == <<doc, undoStack, redoStack, tasks, nExec, nUndo, history, aiService>>

(***************************************************************************)
(* Bounds of the model.                                                    *)
(***************************************************************************)
NRows == 4
NCols == 2
MaxLen == 2
MaxBatches == 2
MaxUndos == 2
CapBatches == 52
CapUndos == 1
RollLen == 3
ChartLen == 3
EntryCalls == 2
EntryUndos == 2
ShiftLen == 2
FormatLen == 2
RenameLen == 2
RenameCalls == 2
RenameUndos == 2
SheetLen == 2
SheetCalls == 2
SheetUndos == 1
SnapLen == 2
LifeUndos == 2
OverlapLen == 2
FailLen == 3
FailCalls == 2
FailUndos == 2
ClearLen == 2
ClearCalls == 2
ClearUndos == 1
SwitchLen == 2
MaxRequests == 2
MaxProbes == 2
MaxRetried == 5
ReadLen == 2
ReadCalls == 2
ReadUndos == 1

(***************************************************************************)
(* Program constants.                                                      *)
(***************************************************************************)
maxUndoSteps == 50

(***************************************************************************)
(* The document: worksheets, cells, addresses.                             *)
(***************************************************************************)
Cells == (1..NRows) \X (1..NCols)

ColNames == <<"A", "B", "C", "D">>

Values == {"", "1", "2", "3"}

Formulas == {"=1", "=2", "=3"}

IsFormula(c) == c \in Formulas

\* The computed value of a cell content: what Range.values reads.
Eval(c) ==
  CASE c = "=1" -> "1"
    [] c = "=2" -> "2"
    [] c = "=3" -> "3"
    [] OTHER -> c

BlankCell ==
  [content |-> "", font |-> "black", fill |-> "none", borders |-> "none",
   numberFormat |-> "General", cf |-> 0]

NewSheet(id, name) ==
  [id |-> id, name |-> name, cells |-> [p \in Cells |-> BlankCell],
   charts |-> {}, pivots |-> {}, filter |-> ""]

Rects ==
  {rc \in [top : 1..NRows, left : 1..NCols, bottom : 1..NRows, right : 1..NCols] :
     rc.top <= rc.bottom /\ rc.left <= rc.right}

CellAddr(r, c) == ColNames[c] \o ToString(r)

RectAddr(rc) ==
  IF rc.top = rc.bottom /\ rc.left = rc.right
    THEN CellAddr(rc.top, rc.left)
    ELSE CellAddr(rc.top, rc.left) \o ":" \o CellAddr(rc.bottom, rc.right)

\* worksheet.getRange(target) resolves at the next context.sync().
Resolvable(target) == \E rc \in Rects : RectAddr(rc) = target

getRange(target) == CHOOSE rc \in Rects : RectAddr(rc) = target

RectRows(rc) == rc.bottom - rc.top + 1

RectCols(rc) == rc.right - rc.left + 1

RectCells(rc) ==
  {p \in Cells : rc.top <= p[1] /\ p[1] <= rc.bottom /\ rc.left <= p[2] /\ p[2] <= rc.right}

ActiveIndex(d) == CHOOSE i \in 1..Len(d.sheets) : d.sheets[i].id = d.active

getActiveWorksheet(d) == d.sheets[ActiveIndex(d)]

WithActiveWorksheet(d, sheet) == [d EXCEPT !.sheets[ActiveIndex(d)] = sheet]

\* range.load("values"): the computed values, one row after the other.
ReadValues(sheet, rc) ==
  [i \in 1..RectRows(rc) |->
    [j \in 1..RectCols(rc) |-> Eval(sheet.cells[<<rc.top + i - 1, rc.left + j - 1>>].content)]]

\* range.load("formulas"): the formula of a formula cell, the value of any other.
ReadFormulas(sheet, rc) ==
  [i \in 1..RectRows(rc) |->
    [j \in 1..RectCols(rc) |-> sheet.cells[<<rc.top + i - 1, rc.left + j - 1>>].content]]

\* The host accepts a grid only when it has the dimensions of the range.
GridFits(grid, rc) ==
  /\ Len(grid) = RectRows(rc)
  /\ \A i \in 1..Len(grid) : Len(grid[i]) = RectCols(rc)

\* range.values = grid and range.formulas = grid: the cell takes what is written.
WriteGrid(sheet, rc, grid) ==
  [sheet EXCEPT !.cells =
    [p \in Cells |->
      IF p \in RectCells(rc)
        THEN [sheet.cells[p] EXCEPT !.content = grid[p[1] - rc.top + 1][p[2] - rc.left + 1]]
        ELSE sheet.cells[p]]]

(***************************************************************************)
(* Descriptors (ExcelOperation), values of type any, inverses.             *)
(***************************************************************************)
Undefined == [t |-> "undefined", s |-> "", a |-> <<>>]

Scalar(s) == [t |-> "scalar", s |-> s, a |-> <<>>]

Array(a) == [t |-> "array", s |-> "", a |-> a]

NoOptions ==
  [present |-> FALSE, font |-> "", fill |-> "", borders |-> "", numberFormat |-> "",
   name |-> "", destination |-> ""]

Op(type, target, value, options) ==
  [type |-> type, target |-> target, value |-> value, options |-> options]

\* The closure a handler returns, as the data it captures.  step and batch
\* record which operation of which executeOperations call it reverts, and
\* made the id of the sheet the operation added, appliedOn the id of the
\* sheet that was active when it was applied: the closure holds none of the
\* four.
NullUndo ==
  [handler |-> "null", target |-> "", values |-> <<>>, formulas |-> <<>>,
   font |-> "", fill |-> "", borders |-> "", id |-> 0, currentName |-> "", newName |-> "",
   step |-> 0, batch |-> 0, made |-> 0, appliedOn |-> 0]

NoError == [type |-> "none", step |-> 0]

\* What a call throws to its caller: nothing yet.
NoThrow == [type |-> "none", step |-> 0, secondary |-> <<>>]

Raise(d, type) == [raised |-> TRUE, error |-> type, doc |-> d, undo |-> NullUndo]

Return(d, undo) == [raised |-> FALSE, error |-> "none", doc |-> d, undo |-> undo]

(***************************************************************************)
(* Host calls on a worksheet that move or reformat cells.                  *)
(***************************************************************************)
\* The format sub-object of a range reads as the common value of its cells,
\* and as null ("mixed") when they differ.
ReadFormat(sheet, rc, field) ==
  LET vs == {sheet.cells[p][field] : p \in RectCells(rc)}
  IN IF Cardinality(vs) = 1 THEN CHOOSE v \in vs : TRUE ELSE "mixed"

\* Object.assign on a format sub-object: an absent ("") or null ("mixed")
\* field sets nothing.
AssignFormat(sheet, rc, field, v) ==
  IF v \in {"", "mixed"}
    THEN sheet
    ELSE [sheet EXCEPT !.cells =
           [p \in Cells |->
             IF p \in RectCells(rc) THEN [sheet.cells[p] EXCEPT ![field] = v]
                                    ELSE sheet.cells[p]]]

\* The grid is a window on the sheet: the host refuses an insert that would
\* push a non-blank cell over the edge.
CanInsertDown(sheet, rc) ==
  \A p \in Cells :
    (rc.left <= p[2] /\ p[2] <= rc.right /\ p[1] >= rc.top /\ p[1] > NRows - RectRows(rc))
      => sheet.cells[p] = BlankCell

CanInsertRight(sheet, rc) ==
  \A p \in Cells :
    (rc.top <= p[1] /\ p[1] <= rc.bottom /\ p[2] >= rc.left /\ p[2] > NCols - RectCols(rc))
      => sheet.cells[p] = BlankCell

\* An insert that empties the range and shifts nothing.
InsertNoShift(sheet, rc) ==
  [sheet EXCEPT !.cells =
    [p \in Cells |-> IF p \in RectCells(rc) THEN BlankCell ELSE sheet.cells[p]]]

\* range.insert(Excel.InsertShiftDirection.down)
InsertShiftDown(sheet, rc) ==
  [sheet EXCEPT !.cells =
    [p \in Cells |->
      IF p[2] < rc.left \/ p[2] > rc.right \/ p[1] < rc.top THEN sheet.cells[p]
      ELSE IF p[1] <= rc.bottom THEN BlankCell
      ELSE sheet.cells[<<p[1] - RectRows(rc), p[2]>>]]]

\* range.insert(Excel.InsertShiftDirection.right)
InsertShiftRight(sheet, rc) ==
  [sheet EXCEPT !.cells =
    [p \in Cells |->
      IF p[1] < rc.top \/ p[1] > rc.bottom \/ p[2] < rc.left THEN sheet.cells[p]
      ELSE IF p[2] <= rc.right THEN BlankCell
      ELSE sheet.cells[<<p[1], p[2] - RectCols(rc)>>]]]

\* A delete that empties the range and shifts nothing.
DeleteNoShift(sheet, rc) ==
  [sheet EXCEPT !.cells =
    [p \in Cells |-> IF p \in RectCells(rc) THEN BlankCell ELSE sheet.cells[p]]]

\* range.delete(Excel.DeleteShiftDirection.up)
DeleteShiftUp(sheet, rc) ==
  [sheet EXCEPT !.cells =
    [p \in Cells |->
      IF p[2] < rc.left \/ p[2] > rc.right \/ p[1] < rc.top THEN sheet.cells[p]
      ELSE IF p[1] + RectRows(rc) <= NRows THEN sheet.cells[<<p[1] + RectRows(rc), p[2]>>]
      ELSE BlankCell]]

\* range.delete(Excel.DeleteShiftDirection.left)
DeleteShiftLeft(sheet, rc) ==
  [sheet EXCEPT !.cells =
    [p \in Cells |->
      IF p[1] < rc.top \/ p[1] > rc.bottom \/ p[2] < rc.left THEN sheet.cells[p]
      ELSE IF p[2] + RectCols(rc) <= NCols THEN sheet.cells[<<p[1], p[2] + RectCols(rc)>>]
      ELSE BlankCell]]

(***************************************************************************)
(* The handlers.  outcome is the host's answer to the handler's            *)
(* Excel.run: "ok", or "reject" when the host refuses the request.         *)
(***************************************************************************)
setCellValue(d, target, value, outcome) ==
  IF outcome = "reject" THEN Raise(d, "HandlerApplyError")
  ELSE IF ~Resolvable(target) THEN Raise(d, "TargetResolutionError")
  ELSE
    LET sheet == getActiveWorksheet(d)
        range == getRange(target)
        originalValues == ReadValues(sheet, range)
        grid == IF value.t = "array" THEN value.a ELSE <<<<value.s>>>>
    IN IF ~GridFits(grid, range) THEN Raise(d, "HandlerApplyError")
       ELSE Return(WithActiveWorksheet(d, WriteGrid(sheet, range, grid)),
                   [NullUndo EXCEPT !.handler = "setCellValue", !.target = target,
                                    !.values = originalValues])

setFormula(d, target, formula, outcome) ==
  IF outcome = "reject" THEN Raise(d, "HandlerApplyError")
  ELSE IF ~Resolvable(target) THEN Raise(d, "TargetResolutionError")
  ELSE
    LET sheet == getActiveWorksheet(d)
        range == getRange(target)
        originalFormulas == ReadFormulas(sheet, range)
        grid == <<<<formula.s>>>>
    IN IF formula.t # "scalar" \/ ~GridFits(grid, range) THEN Raise(d, "HandlerApplyError")
       ELSE Return(WithActiveWorksheet(d, WriteGrid(sheet, range, grid)),
                   [NullUndo EXCEPT !.handler = "setFormula", !.target = target,
                                    !.formulas = originalFormulas])

formatRange(d, target, options, outcome) ==
  IF outcome = "reject" THEN Raise(d, "HandlerApplyError")
  ELSE IF ~Resolvable(target) THEN Raise(d, "TargetResolutionError")
  ELSE IF ~options.present THEN Raise(d, "TypeError")
  ELSE
    LET sheet == getActiveWorksheet(d)
        range == getRange(target)
        s1 == AssignFormat(sheet, range, "font", options.font)
        s2 == AssignFormat(s1, range, "fill", options.fill)
        s3 == AssignFormat(s2, range, "borders", options.borders)
        s4 == AssignFormat(s3, range, "numberFormat", options.numberFormat)
    IN Return(WithActiveWorksheet(d, s4),
              [NullUndo EXCEPT !.handler = "formatRange", !.target = target,
                               !.font = ReadFormat(sheet, range, "font"),
                               !.fill = ReadFormat(sheet, range, "fill"),
                               !.borders = ReadFormat(sheet, range, "borders")])

\* count is received and never used: the range itself is inserted.
insertRows(d, target, count, outcome) ==
  IF outcome = "reject" THEN Raise(d, "HandlerApplyError")
  ELSE IF ~Resolvable(target) THEN Raise(d, "TargetResolutionError")
  ELSE
    LET sheet == getActiveWorksheet(d)
        range == getRange(target)
    IN IF ~CanInsertDown(sheet, range) THEN Raise(d, "HandlerApplyError")
       ELSE Return(WithActiveWorksheet(d, InsertShiftDown(sheet, range)),
                   [NullUndo EXCEPT !.handler = "insertRows", !.target = target])

insertColumns(d, target, count, outcome) ==
  IF outcome = "reject" THEN Raise(d, "HandlerApplyError")
  ELSE IF ~Resolvable(target) THEN Raise(d, "TargetResolutionError")
  ELSE
    LET sheet == getActiveWorksheet(d)
        range == getRange(target)
    IN IF ~CanInsertRight(sheet, range) THEN Raise(d, "HandlerApplyError")
       ELSE Return(WithActiveWorksheet(d, InsertShiftRight(sheet, range)),
                   [NullUndo EXCEPT !.handler = "insertColumns", !.target = target])

deleteRows(d, target, outcome) ==
  IF outcome = "reject" THEN Raise(d, "HandlerApplyError")
  ELSE IF ~Resolvable(target) THEN Raise(d, "TargetResolutionError")
  ELSE
    LET sheet == getActiveWorksheet(d)
        range == getRange(target)
    IN Return(WithActiveWorksheet(d, DeleteShiftUp(sheet, range)),
              [NullUndo EXCEPT !.handler = "deleteRows", !.target = target,
                               !.values = ReadValues(sheet, range),
                               !.formulas = ReadFormulas(sheet, range)])

deleteColumns(d, target, outcome) ==
  IF outcome = "reject" THEN Raise(d, "HandlerApplyError")
  ELSE IF ~Resolvable(target) THEN Raise(d, "TargetResolutionError")
  ELSE
    LET sheet == getActiveWorksheet(d)
        range == getRange(target)
    IN Return(WithActiveWorksheet(d, DeleteShiftLeft(sheet, range)),
              [NullUndo EXCEPT !.handler = "deleteColumns", !.target = target,
                               !.values = ReadValues(sheet, range),
                               !.formulas = ReadFormulas(sheet, range)])

\* The order of the computed values under an ascending sort: blanks last.
SortRank(v) ==
  CASE v = "1" -> 1
    [] v = "2" -> 2
    [] v = "3" -> 3
    [] OTHER -> 4

\* One row of cells put into an already sorted list of rows, behind the rows
\* whose key is not larger (the sort is stable).
RECURSIVE InsertRow(_, _)
InsertRow(rows, row) ==
  IF rows = <<>> THEN <<row>>
  ELSE IF SortRank(Eval(row[1].content)) < SortRank(Eval(Head(rows)[1].content))
    THEN <<row>> \o rows
    ELSE <<Head(rows)>> \o InsertRow(Tail(rows), row)

RECURSIVE SortRows(_)
SortRows(rows) ==
  IF rows = <<>> THEN <<>>
  ELSE InsertRow(SortRows(SubSeq(rows, 1, Len(rows) - 1)), rows[Len(rows)])

\* range.sort.apply([{ key: 0, ascending: true }], false): the rows of the
\* range, cells with their formats, ordered by their first column.
SortApply(sheet, rc) ==
  LET rows == [i \in 1..RectRows(rc) |->
                [j \in 1..RectCols(rc) |-> sheet.cells[<<rc.top + i - 1, rc.left + j - 1>>]]]
      sorted == SortRows(rows)
  IN [sheet EXCEPT !.cells =
       [p \in Cells |->
         IF p \in RectCells(rc) THEN sorted[p[1] - rc.top + 1][p[2] - rc.left + 1]
                                ELSE sheet.cells[p]]]

\* The chart is in the document once context.sync() has returned; chart.id is
\* read after it and was never loaded: the read gives the id the host made,
\* or throws PropertyNotLoaded (outcome "notLoaded"), as the host library has it.
createChart(d, target, options, outcome) ==
  IF ~options.present THEN Raise(d, "TypeError")
  ELSE IF outcome = "reject" THEN Raise(d, "HandlerApplyError")
  ELSE IF ~Resolvable(target) THEN Raise(d, "TargetResolutionError")
  ELSE
    LET sheet == getActiveWorksheet(d)
        chartId == d.nextId
        added == [sheet EXCEPT !.charts = @ \cup {chartId}]
        synced == [WithActiveWorksheet(d, added) EXCEPT !.nextId = @ + 1]
    IN IF outcome = "notLoaded" THEN Raise(synced, "PropertyNotLoaded")
       ELSE Return(synced,
                   [NullUndo EXCEPT !.handler = "createChart", !.target = target,
                                    !.id = chartId])

addConditionalFormatting(d, target, options, outcome) ==
  IF ~options.present THEN Raise(d, "TypeError")
  ELSE IF outcome = "reject" THEN Raise(d, "HandlerApplyError")
  ELSE IF ~Resolvable(target) THEN Raise(d, "TargetResolutionError")
  ELSE
    LET sheet == getActiveWorksheet(d)
        range == getRange(target)
        added == [sheet EXCEPT !.cells =
                   [p \in Cells |->
                     IF p \in RectCells(range) THEN [sheet.cells[p] EXCEPT !.cf = @ + 1]
                                               ELSE sheet.cells[p]]]
    IN Return(WithActiveWorksheet(d, added),
              [NullUndo EXCEPT !.handler = "addConditionalFormatting", !.target = target])

sortRange(d, target, options, outcome) ==
  IF outcome = "reject" THEN Raise(d, "HandlerApplyError")
  ELSE IF ~Resolvable(target) THEN Raise(d, "TargetResolutionError")
  ELSE IF ~options.present THEN Raise(d, "TypeError")
  ELSE
    LET sheet == getActiveWorksheet(d)
        range == getRange(target)
    IN Return(WithActiveWorksheet(d, SortApply(sheet, range)),
              [NullUndo EXCEPT !.handler = "sortRange", !.target = target,
                               !.values = ReadValues(sheet, range)])

applyFilter(d, target, options, outcome) ==
  IF ~options.present THEN Raise(d, "TypeError")
  ELSE IF outcome = "reject" THEN Raise(d, "HandlerApplyError")
  ELSE IF ~Resolvable(target) THEN Raise(d, "TargetResolutionError")
  ELSE
    LET sheet == getActiveWorksheet(d)
    IN Return(WithActiveWorksheet(d, [sheet EXCEPT !.filter = target]),
              [NullUndo EXCEPT !.handler = "applyFilter", !.target = target])

\* pivotTables.add(options.name || "ManicePivotTable", range,
\* getRange(options.destination || "H1")): the host refuses a name or a
\* destination a pivot table of the worksheet has.  pivotTable.id is read
\* after the sync as chart.id is.
createPivotTable(d, target, options, outcome) ==
  IF ~options.present THEN Raise(d, "TypeError")
  ELSE IF outcome = "reject" THEN Raise(d, "HandlerApplyError")
  ELSE IF ~Resolvable(target) THEN Raise(d, "TargetResolutionError")
  ELSE
    LET sheet == getActiveWorksheet(d)
        name == IF options.name # "" THEN options.name ELSE "ManicePivotTable"
        destination == IF options.destination # "" THEN options.destination ELSE "H1"
        pivotTableId == d.nextId
        added == [sheet EXCEPT !.pivots = @ \cup
                   {[id |-> pivotTableId, name |-> name, destination |-> destination]}]
        synced == [WithActiveWorksheet(d, added) EXCEPT !.nextId = @ + 1]
    IN IF \E pt \in sheet.pivots : pt.name = name \/ pt.destination = destination
         THEN Raise(d, "HandlerApplyError")
       ELSE IF outcome = "notLoaded" THEN Raise(synced, "PropertyNotLoaded")
       ELSE Return(synced,
                   [NullUndo EXCEPT !.handler = "createPivotTable", !.target = target,
                                    !.id = pivotTableId])

SheetNames(d) == {d.sheets[i].name : i \in 1..Len(d.sheets)}

\* worksheets.getItem(name): the position of the sheet of that name.
getItem(d, name) == CHOOSE i \in 1..Len(d.sheets) : d.sheets[i].name = name

\* worksheet.name = newName: the host refuses an empty name and a name
\* another sheet has.
CanName(d, i, name) ==
  /\ name # ""
  /\ \A j \in 1..Len(d.sheets) : d.sheets[j].name = name => j = i

renameSheet(d, currentName, newName, outcome) ==
  IF outcome = "reject" THEN Raise(d, "HandlerApplyError")
  ELSE IF currentName \notin SheetNames(d) THEN Raise(d, "TargetResolutionError")
  ELSE IF newName.t # "scalar" \/ ~CanName(d, getItem(d, currentName), newName.s)
    THEN Raise(d, "HandlerApplyError")
  ELSE Return([d EXCEPT !.sheets[getItem(d, currentName)].name = newName.s],
              [NullUndo EXCEPT !.handler = "renameSheet", !.currentName = currentName,
                               !.newName = newName.s])

\* The name the host gives a sheet that is added without one.
AutoSheetName(d) ==
  LET free == {n \in 1..(Len(d.sheets) + 1) : ("Sheet" \o ToString(n)) \notin SheetNames(d)}
  IN "Sheet" \o ToString(CHOOSE n \in free : \A o \in free : n <= o)

\* worksheets.add(name): the new sheet goes last and is not activated; the
\* host names it when name is undefined.  The inverse keeps name as it was
\* passed and looks the sheet up by it.
createSheet(d, name, options, outcome) ==
  IF outcome = "reject" THEN Raise(d, "HandlerApplyError")
  ELSE IF name.t = "array" \/ (name.t = "scalar" /\ (name.s = "" \/ name.s \in SheetNames(d)))
    THEN Raise(d, "HandlerApplyError")
  ELSE LET given == IF name.t = "scalar" THEN name.s ELSE AutoSheetName(d)
       IN Return([d EXCEPT !.sheets = Append(@, NewSheet(d.nextId, given)), !.nextId = @ + 1],
                 [NullUndo EXCEPT !.handler = "createSheet", !.newName = name.s,
                                  !.made = d.nextId])

(***************************************************************************)
(* The dispatcher.                                                         *)
(***************************************************************************)
OperationTypes ==
  {"cell_edit", "formula", "format", "insert_row", "insert_column", "delete_row",
   "delete_column", "chart", "conditional_format", "sort", "filter", "pivot_table",
   "sheet_rename", "sheet_create"}

\* operation.value || 1
ValueOrOne(value) == IF value.t = "scalar" /\ value.s \notin {"", "0"} THEN value ELSE Scalar("1")

\* The cases of the switch.
HandlerOf(d, operation, outcome) ==
  CASE operation.type = "cell_edit" ->
         setCellValue(d, operation.target, operation.value, outcome)
    [] operation.type = "formula" ->
         setFormula(d, operation.target, operation.value, outcome)
    [] operation.type = "format" ->
         formatRange(d, operation.target, operation.options, outcome)
    [] operation.type = "insert_row" ->
         insertRows(d, operation.target, ValueOrOne(operation.value), outcome)
    [] operation.type = "insert_column" ->
         insertColumns(d, operation.target, ValueOrOne(operation.value), outcome)
    [] operation.type = "delete_row" ->
         deleteRows(d, operation.target, outcome)
    [] operation.type = "delete_column" ->
         deleteColumns(d, operation.target, outcome)
    [] operation.type = "chart" ->
         createChart(d, operation.target, operation.options, outcome)
    [] operation.type = "conditional_format" ->
         addConditionalFormatting(d, operation.target, operation.options, outcome)
    [] operation.type = "sort" ->
         sortRange(d, operation.target, operation.options, outcome)
    [] operation.type = "filter" ->
         applyFilter(d, operation.target, operation.options, outcome)
    [] operation.type = "pivot_table" ->
         createPivotTable(d, operation.target, operation.options, outcome)
    [] operation.type = "sheet_rename" ->
         renameSheet(d, operation.target, operation.value, outcome)
    [] operation.type = "sheet_create" ->
         createSheet(d, operation.value, operation.options, outcome)

\* A dispatcher whose default case throws.
executeOperationStrict(d, operation, outcome) ==
  IF operation.type \in OperationTypes THEN HandlerOf(d, operation, outcome)
                                       ELSE Raise(d, "UnknownOperationKind")

\* executeOperation: the switch on operation.type; its default case warns
\* and returns null.
executeOperation(d, operation, outcome) ==
  IF operation.type \in OperationTypes THEN HandlerOf(d, operation, outcome)
                                       ELSE Return(d, NullUndo)

(***************************************************************************)
(* The inverses: what the closure returned by each handler does when it    *)
(* is called.  It resolves its target on the worksheet active at that      *)
(* moment and writes what it captured.                                     *)
(***************************************************************************)
Failed(d) == [raised |-> TRUE, doc |-> d]

\* A delete that takes the chart made last.
DeleteNewestChart(sheet, chartId) ==
  [sheet EXCEPT !.charts = @ \ {CHOOSE c \in @ : \A o \in @ : o <= c}]

\* charts.getItem(chartId).delete()
DeleteChart(sheet, chartId) == [sheet EXCEPT !.charts = @ \ {chartId}]

\* pivotTables.getItem(pivotTableId).delete()
DeletePivotTable(sheet, pivotTableId) ==
  [sheet EXCEPT !.pivots = {pt \in @ : pt.id # pivotTableId}]

Done(d) == [raised |-> FALSE, doc |-> d]

RemoveSheet(d, i) ==
  LET rest == SubSeq(d.sheets, 1, i - 1) \o SubSeq(d.sheets, i + 1, Len(d.sheets))
  IN [d EXCEPT !.sheets = rest,
               !.active = IF d.sheets[i].id = d.active THEN rest[1].id ELSE d.active]

\* An inverse of renameSheet that leaves the name as it is.
RenameBackKeep(d, currentName, newName) == d

\* worksheets.getItem(newName).name = currentName
RenameBack(d, currentName, newName) ==
  [d EXCEPT !.sheets[getItem(d, newName)].name = currentName]

\* An inverse that first activates the worksheet its operation was applied on.
InverseDocActivated(d, appliedOn) ==
  IF \E i \in 1..Len(d.sheets) : d.sheets[i].id = appliedOn
    THEN [d EXCEPT !.active = appliedOn]
    ELSE d

\* The inverse opens an Excel.run of its own and asks the workbook, as it is
\* then, for getActiveWorksheet().
InverseDoc(d, appliedOn) == d

\* An inverse that takes away the one conditional format its operation added.
ClearLast(sheet, rc) ==
  [sheet EXCEPT !.cells =
    [p \in Cells |->
      IF p \in RectCells(rc) /\ sheet.cells[p].cf > 0
        THEN [sheet.cells[p] EXCEPT !.cf = @ - 1]
        ELSE sheet.cells[p]]]

\* undoRange.conditionalFormats.clearAll()
ClearAll(sheet, rc) ==
  [sheet EXCEPT !.cells =
    [p \in Cells |->
      IF p \in RectCells(rc) THEN [sheet.cells[p] EXCEPT !.cf = 0] ELSE sheet.cells[p]]]

InvokeUndo(d, undoOp, outcome) ==
  LET sheet == getActiveWorksheet(d)
      undoRange == getRange(undoOp.target)
  IN
  IF outcome = "reject" THEN Failed(d)
  ELSE CASE undoOp.handler \in {"setCellValue", "sortRange"} ->
              Done(WithActiveWorksheet(d, WriteGrid(sheet, undoRange, undoOp.values)))
         [] undoOp.handler = "setFormula" ->
              Done(WithActiveWorksheet(d, WriteGrid(sheet, undoRange, undoOp.formulas)))
         [] undoOp.handler = "formatRange" ->
              Done(WithActiveWorksheet(d,
                AssignFormat(AssignFormat(AssignFormat(sheet, undoRange, "font", undoOp.font),
                                          undoRange, "fill", undoOp.fill),
                             undoRange, "borders", undoOp.borders)))
         [] undoOp.handler = "insertRows" ->
              Done(WithActiveWorksheet(d, DeleteShiftUp(sheet, undoRange)))
         [] undoOp.handler = "insertColumns" ->
              Done(WithActiveWorksheet(d, DeleteShiftLeft(sheet, undoRange)))
         [] undoOp.handler = "deleteRows" ->
              IF ~CanInsertDown(sheet, undoRange) THEN Failed(d)
              ELSE Done(WithActiveWorksheet(d,
                     WriteGrid(WriteGrid(InsertShiftDown(sheet, undoRange), undoRange,
                                         undoOp.values),
                               undoRange, undoOp.formulas)))
         [] undoOp.handler = "deleteColumns" ->
              IF ~CanInsertRight(sheet, undoRange) THEN Failed(d)
              ELSE Done(WithActiveWorksheet(d,
                     WriteGrid(WriteGrid(InsertShiftRight(sheet, undoRange), undoRange,
                                         undoOp.values),
                               undoRange, undoOp.formulas)))
         [] undoOp.handler = "createChart" ->
              IF undoOp.id \notin sheet.charts THEN Failed(d)
              ELSE Done(WithActiveWorksheet(d, DeleteChart(sheet, undoOp.id)))
         [] undoOp.handler = "addConditionalFormatting" ->
              Done(WithActiveWorksheet(d, ClearAll(sheet, undoRange)))
         [] undoOp.handler = "applyFilter" ->
              Done(WithActiveWorksheet(d, [sheet EXCEPT !.filter = ""]))
         [] undoOp.handler = "createPivotTable" ->
              IF undoOp.id \notin {pt.id : pt \in sheet.pivots} THEN Failed(d)
              ELSE Done(WithActiveWorksheet(d, DeletePivotTable(sheet, undoOp.id)))
         [] undoOp.handler = "renameSheet" ->
              IF undoOp.newName \notin SheetNames(d) THEN Failed(d)
              ELSE IF ~CanName(d, getItem(d, undoOp.newName), undoOp.currentName)
                THEN Failed(d)
              ELSE Done(RenameBack(d, undoOp.currentName, undoOp.newName))
         [] undoOp.handler = "createSheet" ->
              IF undoOp.newName \notin SheetNames(d) \/ Len(d.sheets) = 1 THEN Failed(d)
              ELSE Done(RemoveSheet(d, getItem(d, undoOp.newName)))

(***************************************************************************)
(* The undo stack.                                                         *)
(***************************************************************************)
\* A push that never drops an entry.
addToUndoStackUnbounded(stack, undoOperation) == Append(stack, undoOperation)

\* A push that refuses the new entry on a full stack.
addToUndoStackRejectNew(stack, undoOperation) ==
  IF Len(stack) >= maxUndoSteps THEN stack ELSE Append(stack, undoOperation)

\* addToUndoStack: push, then drop the oldest entry above maxUndoSteps.
addToUndoStack(stack, undoOperation) ==
  LET pushed == Append(stack, undoOperation)
  IN IF Len(pushed) > maxUndoSteps THEN Tail(pushed) ELSE pushed

\* push in place of unshift.
CollectAppend(undoOperations, undoOp) ==
  IF undoOp.handler # "null" THEN Append(undoOperations, undoOp) ELSE undoOperations

\* if (undoOp) undoOperations.unshift(undoOp)
Collect(undoOperations, undoOp) ==
  IF undoOp.handler # "null" THEN <<undoOp>> \o undoOperations ELSE undoOperations

\* A push without the length guard.
PushCombinedAlways(stack, undoOperations) == addToUndoStack(stack, undoOperations)

\* if (undoOperations.length > 0) this.addToUndoStack(combined undo)
PushCombined(stack, undoOperations) ==
  IF Len(undoOperations) > 0 THEN addToUndoStack(stack, undoOperations) ELSE stack

\* A push inside the loop.
StackAfterTurnEager(stack, undoOperations, last) == PushCombined(stack, undoOperations)

\* The push stands behind the loop: a turn that is not the last leaves the
\* stack alone.
StackAfterTurn(stack, undoOperations, last) ==
  IF last THEN PushCombined(stack, undoOperations) ELSE stack

\* A catch block that throws the error of the last inverse that raised.
RethrowLast(error, undoErrors) ==
  IF undoErrors = <<>>
    THEN [type |-> error.type, step |-> error.step, secondary |-> <<>>]
    ELSE [type |-> "RollbackError", step |-> undoErrors[Len(undoErrors)], secondary |-> <<>>]

\* throw error: the error the loop caught, as it was caught.  The errors of
\* the inverses (undoErrors) went to console.error and are not on it.
Rethrow(error, undoErrors) ==
  [type |-> error.type, step |-> error.step, secondary |-> <<>>]

\* A loop that calls the handler and goes on without awaiting it.
NoAwaitHandler(i) == [pc |-> "loop", i |-> i + 1]

\* const undoOp = await this.executeOperation(operation): the loop stands
\* still until the handler of operations[i] has returned or raised.
AwaitHandler(i) == [pc |-> "await", i |-> i]

\* A handler that is called again after it raised.
AfterRaiseRetry(undoOperations) == "await"

\* A raise that leaves executeOperations at once, the catch block skipped.
AfterRaiseNoRollback(undoOperations) == "raised"

\* A raise inside the try block goes to the catch block, whose loop has
\* nothing to do when no inverse was collected.
AfterRaise(undoOperations) ==
  IF undoOperations = <<>> THEN "raised" ELSE "catch"

\* A catch block without the inner try: the first inverse that raises ends it.
CatchNextAbort(j, n, raised) ==
  IF raised \/ j = n THEN "raised" ELSE "catch"

\* The loop of the catch block: the raise of an inverse is caught and
\* logged, the loop goes on to the last inverse, then the error is rethrown.
CatchNext(j, n, raised) ==
  IF j = n THEN "raised" ELSE "catch"

\* An undo() that moves the entry it ran to the redo stack.
redoAfterUndoPush(stack, undoOperation) == Append(stack, undoOperation)

\* undo() leaves the redo stack alone: its push is commented out.
redoAfterUndo(stack, undoOperation) == stack

\* undo() without the length guard: pop() of an empty stack gives undefined
\* and the call of it throws.
undoStartUnguarded(stack) ==
  IF Len(stack) > 0
    THEN [pc |-> "undoing", stack |-> SubSeq(stack, 1, Len(stack) - 1),
          undoOperations |-> stack[Len(stack)]]
    ELSE [pc |-> "raised", stack |-> stack, undoOperations |-> <<>>]

\* An undo() that calls the top entry and leaves it on the stack.
undoStartPeek(stack) ==
  IF Len(stack) > 0
    THEN [pc |-> "undoing", stack |-> stack, undoOperations |-> stack[Len(stack)]]
    ELSE [pc |-> "returned", stack |-> stack, undoOperations |-> <<>>]

\* undo(): nothing on an empty stack, else pop() and call the entry.
undoStart(stack) ==
  IF Len(stack) > 0
    THEN [pc |-> "undoing", stack |-> SubSeq(stack, 1, Len(stack) - 1),
          undoOperations |-> stack[Len(stack)]]
    ELSE [pc |-> "returned", stack |-> stack, undoOperations |-> <<>>]

(***************************************************************************)
(* The calls in flight.  A task is one call of executeOperations or of     *)
(* undo, from its start to its return or raise; it keeps what the call     *)
(* started from (preDoc, preStack), what it did (started, dispatched,      *)
(* invoked, rollbackErrors, pushed), what it throws (thrown) and a summary *)
(* of the caller's call before it                                          *)
(* (prev).  history lists the initial document and the document after      *)
(* each batch that pushed an entry, and is off once a batch raised or      *)
(* followed an undo; it lists too the batches whose entry was pushed and   *)
(* the batches whose entry undo() popped, in the order that happened.      *)
(***************************************************************************)
Tasks == {"caller"}

\* The ExcelService objects of the add-in: the module instance of
\* functions.ts, the one initializeServices makes for the ribbon commands and
\* the one the chat sidebar keeps.  Each has its own undoStack and redoStack.
Instances == {"functions", "ribbonCommands", "ChatSidebar"}

\* The instance the calls of a single entry point go to.
Main == "ribbonCommands"

HostOutcomes == {"ok", "reject"}

Terminal == {"idle", "returned", "raised"}

InitDoc ==
  [sheets |-> <<[NewSheet(1, "Sheet1") EXCEPT !.cells[<<1, 1>>].content = "=2",
                                             !.cells[<<2, 1>>].content = "3"]>>,
   active |-> 1,
   nextId |-> 2]

\* What a read-only operation returns: the fields of ExcelContext and of the
\* smaller results, those a given operation does not fill left empty.
NoResult ==
  [sheet_name |-> "", address |-> "", values |-> <<>>, formulas |-> <<>>,
   format |-> [numberFormat |-> "", font |-> ""],
   sheets |-> <<>>, active_sheet |-> "", previous_operations |-> <<>>, valid |-> FALSE]

\* The read-only call a task is in: its name, its argument, the selection the
\* user holds, and what it has read so far.
NoRead == [op |-> "none", target |-> Undefined, selection |-> "", result |-> NoResult]

NoPrev ==
  [kind |-> "none", pc |-> "idle", service |-> Main, ops |-> <<>>, preDoc |-> InitDoc,
   pushed |-> 0, batch |-> 0, undoOperations |-> <<>>]

Summary(tk) ==
  [kind |-> tk.kind, pc |-> tk.pc, service |-> tk.service, ops |-> tk.ops, preDoc |-> tk.preDoc,
   pushed |-> tk.pushed, batch |-> tk.batch, undoOperations |-> tk.undoOperations]

IdleTask ==
  [kind |-> "none", pc |-> "idle", service |-> Main, ops |-> <<>>, i |-> 0,
   undoOperations |-> <<>>, j |-> 0,
   error |-> NoError, thrown |-> NoThrow, batch |-> 0, preDoc |-> InitDoc, preStack |-> <<>>,
   loaded |-> InitDoc, read |-> NoRead,
   started |-> <<>>, dispatched |-> <<>>, invoked |-> <<>>, rollbackErrors |-> <<>>,
   pushed |-> 0,
   prev |-> NoPrev]

\* No processInstruction call: nothing asked, nothing answered.
NoCall ==
  [pc |-> "idle", retried |-> 0, failure |-> "none",
   response |-> [action |-> "", excel_operations |-> <<>>, fallback |-> FALSE],
   preDoc |-> InitDoc, preStack |-> <<>>, nExec |-> 0]

\* new AIService(): isConnected = false, connectionRetries = 0, maxRetries = 3.
\* call is the processInstruction call in flight, requests and probes count
\* the calls of processInstruction and of checkConnection made so far.
NewAIService ==
  [isConnected |-> FALSE, connectionRetries |-> 0, maxRetries |-> 3,
   call |-> NoCall, requests |-> 0, probes |-> 0]

\* No call is in flight.
Quiescent == \A t \in DOMAIN tasks : tasks[t].pc \in Terminal

Init ==
  /\ doc = InitDoc
  /\ undoStack = [this \in Instances |-> <<>>]
  /\ redoStack = [this \in Instances |-> <<>>]
  /\ tasks = [t \in Tasks |-> IdleTask]
  /\ nExec = 0
  /\ nUndo = 0
  /\ history = [on |-> TRUE, docs |-> <<InitDoc>>, pushed |-> <<>>, popped |-> <<>>]
  /\ aiService = NewAIService

\* executeOperations(operations), up to its first await; an empty list
\* falls through the loop and the push guard and returns.
EnterExec(t, this, operations) ==
  /\ nExec' = nExec + 1
  /\ tasks' = [tasks EXCEPT ![t] =
       [IdleTask EXCEPT !.kind = "exec", !.service = this,
                        !.pc = IF operations = <<>> THEN "returned" ELSE "loop",
                        !.ops = operations, !.i = 1, !.batch = nExec + 1,
                        !.preDoc = doc, !.preStack = undoStack[this],
                        !.prev = Summary(tasks[t])]]
  /\ history' = IF nUndo > 0 THEN [history EXCEPT !.on = FALSE] ELSE history
  /\ UNCHANGED <<doc, undoStack, redoStack, nUndo, aiService>>

\* A call of executeOperations made when no call is in flight.
StartExec(t, this, operations) == Quiescent /\ EnterExec(t, this, operations)

\* The handlers that load what their inverse writes back in a context.sync()
\* of its own, ahead of the one that commits their write.
LoadTypes == {"cell_edit", "formula", "format", "delete_row", "delete_column", "sort"}

\* A handler that loads its snapshot in the sync of its write, behind it.
SnapshotAfterWrite(loaded, written) == written

\* range.load(...); await context.sync(); const original = ...: the snapshot
\* is what the first sync loaded.
Snapshot(loaded, written) == loaded

\* The loop calls executeOperation(operations[i]) and awaits it; the handler
\* runs up to the first context.sync(), which loads the snapshot of the
\* handlers that take one.
Begin(t) ==
  LET tk == tasks[t]
      next == AwaitHandler(tk.i)
  IN
  /\ tk.kind = "exec" /\ tk.pc = "loop" /\ tk.i <= Len(tk.ops)
  /\ tasks' = [tasks EXCEPT ![t] =
       [tk EXCEPT !.started = Append(@, tk.i), !.pc = next.pc, !.i = next.i,
                  !.loaded = doc]]
  /\ UNCHANGED <<doc, undoStack, redoStack, nExec, nUndo, history, aiService>>

\* The inverses the other executeOperations calls in flight on the service
\* of task t have collected.
RECURSIVE CollectedBy(_)
CollectedBy(S) ==
  IF S = {} THEN <<>>
  ELSE LET u == CHOOSE u \in S : TRUE
       IN tasks[u].undoOperations \o CollectedBy(S \ {u})

InFlightWith(t) ==
  {u \in DOMAIN tasks \ {t} :
     /\ tasks[u].kind = "exec" /\ tasks[u].service = tasks[t].service
     /\ tasks[u].pc \in {"loop", "await", "catch"}}

\* A list kept on the service, which the calls in flight fill together.
UndoOperationsShared(own, others) == others \o own

\* const undoOperations = []: the list is a local of the call.
UndoOperationsLocal(own, others) == own

\* One turn of the loop: the handler of operations[i] ran to its end, its
\* last context.sync() committing what it wrote.  On success its
\* inverse goes to the front of undoOperations and, after the last
\* operation, the combined undo is pushed when the list is not empty.  On a
\* raise the catch block starts (and ends at once when nothing was collected).
Dispatch(t, outcomes) ==
  LET tk == tasks[t] IN
  /\ tk.kind = "exec" /\ tk.pc = "await"
  /\ \E outcome \in outcomes :
       LET r == executeOperation(doc, tk.ops[tk.i], outcome)
           read == IF tk.ops[tk.i].type \in LoadTypes
                     THEN executeOperation(Snapshot(tk.loaded, r.doc), tk.ops[tk.i], outcome)
                     ELSE r
           undoOp == [read.undo EXCEPT !.step = tk.i, !.batch = tk.batch,
                                       !.appliedOn = doc.active]
           collected == Collect(UndoOperationsLocal(tk.undoOperations,
                                                    CollectedBy(InFlightWith(t))), undoOp)
           last == tk.i = Len(tk.ops)
           seen == [tk EXCEPT !.dispatched = Append(@, tk.i), !.loaded = InitDoc]
       IN IF r.raised
            THEN /\ tasks' = [tasks EXCEPT ![t] =
                       [seen EXCEPT !.error = [type |-> r.error, step |-> tk.i],
                                    !.j = 1,
                                    !.pc = AfterRaise(tk.undoOperations),
                                    !.thrown =
                                      IF AfterRaise(tk.undoOperations) = "raised"
                                        THEN Rethrow([type |-> r.error, step |-> tk.i], <<>>)
                                        ELSE NoThrow]]
                 /\ history' = [history EXCEPT !.on = FALSE]
                 /\ doc' = r.doc
                 /\ UNCHANGED <<undoStack, redoStack>>
            ELSE /\ tasks' = [tasks EXCEPT ![t] =
                       [seen EXCEPT !.undoOperations = collected, !.i = tk.i + 1,
                                    !.pc = IF last THEN "returned" ELSE "loop",
                                    !.pushed = IF last /\ Len(collected) > 0 THEN 1 ELSE 0]]
                 /\ doc' = r.doc
                 /\ undoStack' = [undoStack EXCEPT
                                    ![tk.service] = StackAfterTurn(@, collected, last)]
                 /\ redoStack' = IF undoStack' # undoStack
                                   THEN [redoStack EXCEPT ![tk.service] = <<>>]
                                   ELSE redoStack
                 /\ history' =
                      LET listed == IF last /\ history.on /\ Len(collected) > 0
                                      THEN [history EXCEPT !.docs = Append(@, r.doc)]
                                      ELSE history
                      IN IF undoStack' # undoStack
                           THEN [listed EXCEPT !.pushed = Append(@, tk.batch)]
                           ELSE listed
  /\ UNCHANGED <<nExec, nUndo, aiService>>

\* One turn of the catch block's loop: undoOperations[j] is called, a raise
\* of it is logged and dropped; after the last one the error is rethrown.
Rollback(t, outcomes) ==
  LET tk == tasks[t] IN
  /\ tk.kind = "exec" /\ tk.pc = "catch"
  /\ \E outcome \in outcomes :
       LET undoOp == tk.undoOperations[tk.j]
           r == InvokeUndo(InverseDoc(doc, undoOp.appliedOn), undoOp, outcome)
           undoErrors == IF r.raised THEN Append(tk.rollbackErrors, undoOp.step)
                                     ELSE tk.rollbackErrors
           pc == CatchNext(tk.j, Len(tk.undoOperations), r.raised)
       IN /\ doc' = r.doc
          /\ tasks' = [tasks EXCEPT ![t] =
               [tk EXCEPT !.invoked = Append(@, undoOp),
                          !.rollbackErrors = undoErrors,
                          !.j = tk.j + 1,
                          !.pc = pc,
                          !.thrown = IF pc = "raised" THEN Rethrow(tk.error, undoErrors)
                                                      ELSE NoThrow]]
  /\ UNCHANGED <<undoStack, redoStack, nExec, nUndo, history, aiService>>

\* undo(), up to its first await.
EnterUndo(t, this) ==
  LET u == undoStart(undoStack[this]) IN
  /\ nUndo' = nUndo + 1
  /\ undoStack' = [undoStack EXCEPT ![this] = u.stack]
  /\ tasks' = [tasks EXCEPT ![t] =
       [IdleTask EXCEPT !.kind = "undo", !.service = this, !.pc = u.pc,
                        !.undoOperations = u.undoOperations, !.j = 1,
                        !.preDoc = doc, !.preStack = undoStack[this],
                        !.prev = Summary(tasks[t])]]
  /\ history' = IF Len(u.undoOperations) > 0
                  THEN [history EXCEPT !.popped = Append(@, u.undoOperations[1].batch)]
                  ELSE history
  /\ UNCHANGED <<doc, redoStack, nExec, aiService>>

\* A call of undo made when no call is in flight.
StartUndo(t, this) == Quiescent /\ EnterUndo(t, this)

\* A combined undo that logs a raise and goes on to the older inverses.
ReplayNextBestEffort(j, n, raised) ==
  IF j = n THEN (IF raised THEN "raised" ELSE "returned") ELSE "undoing"

\* for (const undoOp of undoOperations) { await undoOp(); } : a raise leaves
\* the loop and the call.
ReplayNext(j, n, raised) ==
  IF raised THEN "raised" ELSE IF j = n THEN "returned" ELSE "undoing"

\* One turn of the combined undo's loop: undoOperations[j] is called; a
\* raise of it ends undo() with that error.
UndoStep(t, outcomes) ==
  LET tk == tasks[t] IN
  /\ tk.kind = "undo" /\ tk.pc = "undoing"
  /\ \E outcome \in outcomes :
       LET undoOp == tk.undoOperations[tk.j]
           r == InvokeUndo(InverseDoc(doc, undoOp.appliedOn), undoOp, outcome)
       IN /\ doc' = r.doc
          /\ tasks' = [tasks EXCEPT ![t] =
               [tk EXCEPT !.invoked = Append(@, undoOp),
                          !.j = tk.j + 1,
                          !.error = IF r.raised THEN [type |-> "UndoError", step |-> undoOp.step]
                                                ELSE @,
                          !.pc = ReplayNext(tk.j, Len(tk.undoOperations), r.raised)]]
          /\ redoStack' =
               IF ~r.raised /\ tk.j = Len(tk.undoOperations)
                 THEN [redoStack EXCEPT ![tk.service] = redoAfterUndo(@, tk.undoOperations)]
                 ELSE redoStack
  /\ UNCHANGED <<undoStack, nExec, nUndo, history, aiService>>

(***************************************************************************)
(* Spec: one caller, one call at a time, batches of up to MaxLen           *)
(* descriptors, the host free to refuse any request.                       *)
(***************************************************************************)
Font(colour) == [NoOptions EXCEPT !.present = TRUE, !.font = colour]

Descriptors ==
  <<Op("cell_edit", "A1", Scalar("1"), NoOptions),
    Op("cell_edit", "B1", Scalar("3"), NoOptions),
    Op("formula", "A2", Scalar("=1"), NoOptions),
    Op("cell_edit", "bad address", Scalar("2"), NoOptions),
    Op("comment", "A1", Scalar("2"), NoOptions),
    Op("format", "A1", Undefined, Font("red"))>>

RECURSIVE SeqsUpTo(_, _)
SeqsUpTo(S, n) ==
  IF n = 0 THEN {<<>>}
  ELSE LET shorter == SeqsUpTo(S, n - 1)
       IN shorter \cup {Append(q, x) : q \in shorter, x \in S}

Batches == {[k \in DOMAIN q |-> Descriptors[q[k]]] : q \in SeqsUpTo(DOMAIN Descriptors, MaxLen)}

Call(t) == \E operations \in Batches : nExec < MaxBatches /\ StartExec(t, Main, operations)

Step(t) == Dispatch(t, HostOutcomes)

Revert(t) == Rollback(t, HostOutcomes)

CallUndo(t) == nUndo < MaxUndos /\ StartUndo(t, Main)

Replay(t) == UndoStep(t, HostOutcomes)

Next ==
  \E t \in Tasks : Call(t) \/ Begin(t) \/ Step(t) \/ Revert(t) \/ CallUndo(t) \/ Replay(t)

Spec == Init /\ [][Next]_vars

(***************************************************************************)
(* SpecCalm: the same calls on a host that refuses nothing, so that a      *)
(* handler raises only on what its descriptor asks for.                    *)
(***************************************************************************)
CalmStep(t) == Dispatch(t, {"ok"})

CalmRevert(t) == Rollback(t, {"ok"})

CalmReplay(t) == UndoStep(t, {"ok"})

NextCalm ==
  \E t \in Tasks :
    Call(t) \/ Begin(t) \/ CalmStep(t) \/ CalmRevert(t) \/ CallUndo(t) \/ CalmReplay(t)

SpecCalm == Init /\ [][NextCalm]_vars

(***************************************************************************)
(* SpecCap: up to CapBatches one-edit batches on a host that refuses       *)
(* nothing, and up to CapUndos undo calls, to fill the stack past          *)
(* maxUndoSteps.                                                           *)
(***************************************************************************)
CapBatch == <<Op("cell_edit", "A1", Scalar("1"), NoOptions)>>

CapCall(t) == nExec < CapBatches /\ StartExec(t, Main, CapBatch)

CapUndo(t) == nUndo < CapUndos /\ StartUndo(t, Main)

NextCap ==
  \E t \in Tasks : CapCall(t) \/ Begin(t) \/ CalmStep(t) \/ CapUndo(t) \/ CalmReplay(t)

SpecCap == Init /\ [][NextCap]_vars

(***************************************************************************)
(* SpecRoll: one executeOperations call of up to RollLen descriptors, the  *)
(* host free to refuse any request, the inverses of the catch block        *)
(* included.  SpecRollFair adds that a call that is awaited comes back:    *)
(* every document call eventually returns or raises.                       *)
(***************************************************************************)
RollDescriptors ==
  <<Op("cell_edit", "A1", Scalar("1"), NoOptions),
    Op("formula", "A2", Scalar("=1"), NoOptions),
    Op("cell_edit", "bad address", Scalar("2"), NoOptions),
    Op("comment", "A1", Scalar("2"), NoOptions)>>

RollBatches ==
  {[k \in DOMAIN q |-> RollDescriptors[q[k]]] : q \in SeqsUpTo(DOMAIN RollDescriptors, RollLen)}

RollCall(t) ==
  \E operations \in RollBatches : tasks[t].kind = "none" /\ StartExec(t, Main, operations)

NextRoll ==
  \E t \in Tasks : RollCall(t) \/ Begin(t) \/ Step(t) \/ Revert(t)

SpecRoll == Init /\ [][NextRoll]_vars

SpecRollFair ==
  SpecRoll /\ \A t \in Tasks : WF_vars(Begin(t)) /\ WF_vars(Step(t)) /\ WF_vars(Revert(t))

(***************************************************************************)
(* SpecChart: one batch of up to ChartLen descriptors that create charts   *)
(* and pivot tables, then one undo(), on a host that refuses nothing; the  *)
(* read of the id that was not loaded may throw.                           *)
(***************************************************************************)
ChartOutcomes == {"ok", "notLoaded"}

ChartOptions == [NoOptions EXCEPT !.present = TRUE]

PivotOptions(name, destination) ==
  [NoOptions EXCEPT !.present = TRUE, !.name = name, !.destination = destination]

ChartDescriptors ==
  <<Op("chart", "A1", Undefined, ChartOptions),
    Op("pivot_table", "A1", Undefined, ChartOptions),
    Op("pivot_table", "A1", Undefined, PivotOptions("Sales", "J1")),
    Op("cell_edit", "bad address", Scalar("2"), NoOptions)>>

ChartBatchSet ==
  {[k \in DOMAIN q |-> ChartDescriptors[q[k]]] : q \in SeqsUpTo(DOMAIN ChartDescriptors, ChartLen)}

ChartCall(t) ==
  \E operations \in ChartBatchSet : tasks[t].kind = "none" /\ StartExec(t, Main, operations)

ChartStep(t) == Dispatch(t, ChartOutcomes)

ChartUndo(t) == tasks[t].kind = "exec" /\ StartUndo(t, Main)

NextChart ==
  \E t \in Tasks :
    ChartCall(t) \/ Begin(t) \/ ChartStep(t) \/ CalmRevert(t) \/ ChartUndo(t) \/ CalmReplay(t)

SpecChart == Init /\ [][NextChart]_vars

(***************************************************************************)
(* SpecEntry: one-edit batches and undo calls through any of the           *)
(* ExcelService instances of the add-in.                                   *)
(***************************************************************************)
EntryCall(t) ==
  \E this \in Instances : nExec < EntryCalls /\ StartExec(t, this, CapBatch)

EntryUndo(t) ==
  \E this \in Instances : nUndo < EntryUndos /\ StartUndo(t, this)

NextEntry ==
  \E t \in Tasks : EntryCall(t) \/ Begin(t) \/ CalmStep(t) \/ EntryUndo(t) \/ CalmReplay(t)

SpecEntry == Init /\ [][NextEntry]_vars

(***************************************************************************)
(* SpecScenarioC: insert_row at row 3, delete_row at row 3 in a later      *)
(* batch, then two undo calls, on sheets whose last row is blank.          *)
(***************************************************************************)
ScenarioRange == RectAddr([top |-> 3, left |-> 1, bottom |-> 3, right |-> NCols])

ScenarioC ==
  <<[call |-> "executeOperations",
     operations |-> <<Op("insert_row", ScenarioRange, Undefined, NoOptions)>>],
    [call |-> "executeOperations",
     operations |-> <<Op("delete_row", ScenarioRange, Undefined, NoOptions)>>],
    [call |-> "undo", operations |-> <<>>],
    [call |-> "undo", operations |-> <<>>]>>

ScenarioDoc(b1, a2, a3, b3, f3) ==
  [sheets |->
     <<[NewSheet(1, "Sheet1") EXCEPT !.cells =
          [p \in Cells |->
            CASE p = <<1, 1>> -> [BlankCell EXCEPT !.content = "=2"]
              [] p = <<1, 2>> -> [BlankCell EXCEPT !.content = b1]
              [] p = <<2, 1>> -> [BlankCell EXCEPT !.content = a2]
              [] p = <<3, 1>> -> [BlankCell EXCEPT !.content = a3]
              [] p = <<3, 2>> -> [BlankCell EXCEPT !.content = b3, !.font = f3]
              [] OTHER -> BlankCell]]>>,
   active |-> 1,
   nextId |-> 2]

ScenarioDocs ==
  {ScenarioDoc(b1, a2, a3, b3, f3) :
     b1 \in {"", "1"}, a2 \in {"", "3"}, a3 \in {"2", "=1"}, b3 \in {"", "=3"},
     f3 \in {"black", "red"}}

InitScenarioC ==
  /\ doc \in ScenarioDocs
  /\ undoStack = [this \in Instances |-> <<>>]
  /\ redoStack = [this \in Instances |-> <<>>]
  /\ tasks = [t \in Tasks |-> IdleTask]
  /\ nExec = 0
  /\ nUndo = 0
  /\ history = [on |-> TRUE, docs |-> <<doc>>, pushed |-> <<>>, popped |-> <<>>]
  /\ aiService = NewAIService

ScenarioCall(t) ==
  LET k == nExec + nUndo + 1 IN
  /\ k <= Len(ScenarioC)
  /\ IF ScenarioC[k].call = "undo" THEN StartUndo(t, Main)
                                   ELSE StartExec(t, Main, ScenarioC[k].operations)

NextScenarioC ==
  \E t \in Tasks : ScenarioCall(t) \/ Begin(t) \/ CalmStep(t) \/ CalmReplay(t)

SpecScenarioC == InitScenarioC /\ [][NextScenarioC]_vars

(***************************************************************************)
(* SpecShift: one batch of up to ShiftLen descriptors that insert or       *)
(* delete rows or columns, then one undo(), on a host that refuses         *)
(* nothing, on sheets with content in the first two rows.                  *)
(***************************************************************************)
ShiftDescriptors ==
  <<Op("insert_row", "A1:B1", Undefined, NoOptions),
    Op("insert_row", "A1:B1", Scalar("2"), NoOptions),
    Op("insert_row", "A1:B2", Undefined, NoOptions),
    Op("insert_column", "A1:A4", Undefined, NoOptions),
    Op("insert_column", "A1:A4", Scalar("2"), NoOptions),
    Op("delete_row", "A1:B1", Undefined, NoOptions),
    Op("delete_row", "A2", Undefined, NoOptions),
    Op("delete_column", "A1:A4", Undefined, NoOptions)>>

ShiftBatches ==
  {[k \in DOMAIN q |-> ShiftDescriptors[q[k]]] : q \in SeqsUpTo(DOMAIN ShiftDescriptors, ShiftLen)}

ShiftDoc(b1, a2, b2, f2) ==
  [sheets |->
     <<[NewSheet(1, "Sheet1") EXCEPT !.cells =
          [p \in Cells |->
            CASE p = <<1, 1>> -> [BlankCell EXCEPT !.content = "=2"]
              [] p = <<1, 2>> -> [BlankCell EXCEPT !.content = b1]
              [] p = <<2, 1>> -> [BlankCell EXCEPT !.content = a2, !.font = f2]
              [] p = <<2, 2>> -> [BlankCell EXCEPT !.content = b2]
              [] OTHER -> BlankCell]]>>,
   active |-> 1,
   nextId |-> 2]

ShiftDocs ==
  {ShiftDoc(b1, a2, b2, f2) :
     b1 \in {"", "1"}, a2 \in {"3", "=1"}, b2 \in {"", "=3"}, f2 \in {"black", "red"}}

InitShift ==
  /\ doc \in ShiftDocs
  /\ undoStack = [this \in Instances |-> <<>>]
  /\ redoStack = [this \in Instances |-> <<>>]
  /\ tasks = [t \in Tasks |-> IdleTask]
  /\ nExec = 0
  /\ nUndo = 0
  /\ history = [on |-> TRUE, docs |-> <<doc>>, pushed |-> <<>>, popped |-> <<>>]
  /\ aiService = NewAIService

ShiftCall(t) ==
  \E operations \in ShiftBatches : tasks[t].kind = "none" /\ StartExec(t, Main, operations)

NextShift ==
  \E t \in Tasks :
    ShiftCall(t) \/ Begin(t) \/ CalmStep(t) \/ CalmRevert(t) \/ ChartUndo(t) \/ CalmReplay(t)

SpecShift == InitShift /\ [][NextShift]_vars

(***************************************************************************)
(* SpecFormat: one batch of up to FormatLen format descriptors, then one   *)
(* undo(), on a host that refuses nothing.                                 *)
(***************************************************************************)
Format(font, fill, borders, numberFormat) ==
  [NoOptions EXCEPT !.present = TRUE, !.font = font, !.fill = fill, !.borders = borders,
                    !.numberFormat = numberFormat]

FormatDescriptors ==
  <<Op("format", "A1", Undefined, Format("red", "", "", "")),
    Op("format", "A1", Undefined, Format("", "", "", "0.00")),
    Op("format", "A1:A2", Undefined, Format("", "yellow", "", "0.00")),
    Op("format", "A1:B1", Undefined, Format("blue", "", "thin", "")),
    Op("format", "B2", Undefined, Format("", "", "", "0%"))>>

FormatBatches ==
  {[k \in DOMAIN q |-> FormatDescriptors[q[k]]] :
     q \in SeqsUpTo(DOMAIN FormatDescriptors, FormatLen)}

FormatCall(t) ==
  \E operations \in FormatBatches : tasks[t].kind = "none" /\ StartExec(t, Main, operations)

NextFormat ==
  \E t \in Tasks : FormatCall(t) \/ Begin(t) \/ CalmStep(t) \/ ChartUndo(t) \/ CalmReplay(t)

SpecFormat == Init /\ [][NextFormat]_vars

(***************************************************************************)
(* SpecRename: up to RenameCalls batches of up to RenameLen sheet_rename   *)
(* descriptors and up to RenameUndos undo calls, on a workbook of two      *)
(* sheets and a host that refuses nothing but a name that is taken.        *)
(***************************************************************************)
SheetsDoc ==
  [sheets |-> <<NewSheet(1, "Sheet1"), NewSheet(2, "Sheet2")>>,
   active |-> 1,
   nextId |-> 3]

InitSheets ==
  /\ doc = SheetsDoc
  /\ undoStack = [this \in Instances |-> <<>>]
  /\ redoStack = [this \in Instances |-> <<>>]
  /\ tasks = [t \in Tasks |-> IdleTask]
  /\ nExec = 0
  /\ nUndo = 0
  /\ history = [on |-> TRUE, docs |-> <<doc>>, pushed |-> <<>>, popped |-> <<>>]
  /\ aiService = NewAIService

RenameDescriptors ==
  <<Op("sheet_rename", "Sheet1", Scalar("Data"), NoOptions),
    Op("sheet_rename", "Data", Scalar("Totals"), NoOptions),
    Op("sheet_rename", "Sheet2", Scalar("Sheet1"), NoOptions),
    Op("sheet_rename", "Sheet1", Scalar("Sheet2"), NoOptions),
    Op("sheet_rename", "Totals", Scalar("Sheet1"), NoOptions)>>

RenameBatches ==
  {[k \in DOMAIN q |-> RenameDescriptors[q[k]]] :
     q \in SeqsUpTo(DOMAIN RenameDescriptors, RenameLen)}

RenameCall(t) ==
  \E operations \in RenameBatches : nExec < RenameCalls /\ StartExec(t, Main, operations)

RenameUndo(t) == nUndo < RenameUndos /\ StartUndo(t, Main)

NextRename ==
  \E t \in Tasks :
    RenameCall(t) \/ Begin(t) \/ CalmStep(t) \/ CalmRevert(t) \/ RenameUndo(t) \/ CalmReplay(t)

SpecRename == InitSheets /\ [][NextRename]_vars

(***************************************************************************)
(* SpecSheets: up to SheetCalls batches of up to SheetLen descriptors that *)
(* create and rename sheets, through any ExcelService instance, and up to  *)
(* SheetUndos undo calls, on a workbook of two sheets; the host may refuse *)
(* an inverse of the catch block.                                          *)
(***************************************************************************)
SheetDescriptors ==
  <<Op("sheet_create", "", Scalar("Data"), NoOptions),
    Op("sheet_create", "", Undefined, NoOptions),
    Op("sheet_rename", "Data", Scalar("Totals"), NoOptions),
    Op("sheet_rename", "Sheet1", Scalar("Data"), NoOptions),
    Op("sheet_rename", "Nowhere", Scalar("Data"), NoOptions)>>

SheetBatches ==
  {[k \in DOMAIN q |-> SheetDescriptors[q[k]]] :
     q \in SeqsUpTo(DOMAIN SheetDescriptors, SheetLen)}

SheetCall(t) ==
  \E this \in Instances : \E operations \in SheetBatches :
    nExec < SheetCalls /\ StartExec(t, this, operations)

SheetUndo(t) ==
  \E this \in Instances : nUndo < SheetUndos /\ StartUndo(t, this)

NextSheets ==
  \E t \in Tasks :
    SheetCall(t) \/ Begin(t) \/ CalmStep(t) \/ Revert(t) \/ SheetUndo(t) \/ CalmReplay(t)

SpecSheets == InitSheets /\ [][NextSheets]_vars

(***************************************************************************)
(* SpecSnapshot: one batch of up to SnapLen descriptors of the kinds whose *)
(* handler takes a snapshot, on one range and ranges that overlap it, then *)
(* one undo(), on a host that refuses nothing.                             *)
(***************************************************************************)
SnapDescriptors ==
  <<Op("cell_edit", "A1", Scalar("1"), NoOptions),
    Op("cell_edit", "A1:A2", Array(<<<<"3">>, <<"1">>>>), NoOptions),
    Op("formula", "A1", Scalar("=3"), NoOptions),
    Op("format", "A1", Undefined, Format("red", "", "", "")),
    Op("format", "A1:A2", Undefined, Format("blue", "yellow", "", "")),
    Op("delete_row", "A1:B1", Undefined, NoOptions),
    Op("delete_column", "A1:A4", Undefined, NoOptions),
    Op("sort", "A1:A2", Undefined, ChartOptions)>>

SnapBatches ==
  {[k \in DOMAIN q |-> SnapDescriptors[q[k]]] : q \in SeqsUpTo(DOMAIN SnapDescriptors, SnapLen)}

SnapCall(t) ==
  \E operations \in SnapBatches : tasks[t].kind = "none" /\ StartExec(t, Main, operations)

NextSnapshot ==
  \E t \in Tasks : SnapCall(t) \/ Begin(t) \/ CalmStep(t) \/ ChartUndo(t) \/ CalmReplay(t)

SpecSnapshot == Init /\ [][NextSnapshot]_vars

(***************************************************************************)
(* SpecLifecycle: up to CapBatches one-edit batches, one at a time, and,   *)
(* from the batch that fills the stack on, up to LifeUndos undo calls by   *)
(* two callers; an undo() may start while another undo() or the batch is   *)
(* suspended at an await.                                                  *)
(***************************************************************************)
Overlapping == {"caller", "other"}

InitOverlap ==
  /\ doc = InitDoc
  /\ undoStack = [this \in Instances |-> <<>>]
  /\ redoStack = [this \in Instances |-> <<>>]
  /\ tasks = [t \in Overlapping |-> IdleTask]
  /\ nExec = 0
  /\ nUndo = 0
  /\ history = [on |-> TRUE, docs |-> <<doc>>, pushed |-> <<>>, popped |-> <<>>]
  /\ aiService = NewAIService

LifeCall(t) == t = "caller" /\ nExec < CapBatches /\ StartExec(t, Main, CapBatch)

LifeUndo(t) ==
  /\ nExec >= maxUndoSteps
  /\ tasks[t].pc \in Terminal /\ nUndo < LifeUndos
  /\ EnterUndo(t, Main)

NextLifecycle ==
  \E t \in Overlapping :
    LifeCall(t) \/ Begin(t) \/ CalmStep(t) \/ LifeUndo(t) \/ CalmReplay(t)

SpecLifecycle == InitOverlap /\ [][NextLifecycle]_vars

(***************************************************************************)
(* SpecOverlap: three callers, each with one call, two with a batch of up  *)
(* to OverlapLen descriptors and the third with an undo(); a call may      *)
(* start while the calls of the others are suspended at an await.          *)
(***************************************************************************)
Concurrent == {"caller", "other", "third"}

InitConcurrent ==
  /\ doc = InitDoc
  /\ undoStack = [this \in Instances |-> <<>>]
  /\ redoStack = [this \in Instances |-> <<>>]
  /\ tasks = [t \in Concurrent |-> IdleTask]
  /\ nExec = 0
  /\ nUndo = 0
  /\ history = [on |-> TRUE, docs |-> <<doc>>, pushed |-> <<>>, popped |-> <<>>]
  /\ aiService = NewAIService

OverlapDescriptors ==
  <<Op("cell_edit", "A1", Scalar("1"), NoOptions),
    Op("formula", "A2", Scalar("=1"), NoOptions),
    Op("cell_edit", "bad address", Scalar("2"), NoOptions)>>

OverlapBatches ==
  {[k \in DOMAIN q |-> OverlapDescriptors[q[k]]] :
     q \in SeqsUpTo(DOMAIN OverlapDescriptors, OverlapLen)}

OverlapCall(t) ==
  \E operations \in OverlapBatches :
    t # "third" /\ tasks[t].kind = "none" /\ EnterExec(t, Main, operations)

OverlapUndo(t) == t = "third" /\ tasks[t].kind = "none" /\ EnterUndo(t, Main)

NextOverlap ==
  \E t \in Concurrent :
    OverlapCall(t) \/ Begin(t) \/ CalmStep(t) \/ CalmRevert(t) \/ OverlapUndo(t) \/ CalmReplay(t)

SpecOverlap == InitConcurrent /\ [][NextOverlap]_vars

(***************************************************************************)
(* The read-only operations.                                               *)
(***************************************************************************)
\* sheets.items.map(sheet => sheet.name)
SheetNameList(d) == [i \in 1..Len(d.sheets) |-> d.sheets[i].name]

\* if (targetRange): undefined and the empty string are falsy.
Truthy(value) == value.t = "scalar" /\ value.s # ""

\* range.address: the name of the sheet and the address in it.
Address(sheet, rc) == sheet.name \o "!" \o RectAddr(rc)

\* A getCurrentContext that answers from a snapshot kept from before the
\* call that went before it.
ContextCached(d, cached) == cached

\* Excel.run(...) makes a request context of its own and each
\* context.sync() loads from the workbook as it is.
ContextSource(d, cached) == d

\* getCurrentContext: what its first context.sync() loads.  RangeFormat has
\* no numberFormat, and load("format") loads no property of the font.
LoadContext(d, address) ==
  LET sheet == getActiveWorksheet(d)
      range == getRange(address)
  IN [NoResult EXCEPT !.sheet_name = sheet.name, !.active_sheet = sheet.name,
                      !.address = Address(sheet, range),
                      !.values = ReadValues(sheet, range),
                      !.formulas = ReadFormulas(sheet, range),
                      !.format = [numberFormat |-> "undefined", font |-> "proxy"]]

\* getCurrentContext: what its second context.sync() loads.
LoadSheetNames(d, result) == [result EXCEPT !.sheets = SheetNameList(d)]

\* getRangeData: range.load("values")
LoadRangeData(d, target) ==
  [NoResult EXCEPT !.values = ReadValues(getActiveWorksheet(d), getRange(target))]

\* getSelectionInfo: range.load("address, values, formulas")
LoadSelectionInfo(d, selection) ==
  LET sheet == getActiveWorksheet(d)
      range == getRange(selection)
  IN [NoResult EXCEPT !.address = Address(sheet, range),
                      !.values = ReadValues(sheet, range),
                      !.formulas = ReadFormulas(sheet, range)]

\* rangeAddress.toUpperCase(), on the strings the model passes.
ToUpperCase(s) ==
  CASE s = "a1" -> "A1"
    [] s = "a1:b2" -> "A1:B2"
    [] s = "Sheet1" -> "SHEET1"
    [] s = "bad address" -> "BAD ADDRESS"
    [] OTHER -> s

CellRefs == {CellAddr(r, c) : r \in 1..NRows, c \in 1..NCols}

\* /^[A-Z]+[0-9]+(:([A-Z]+[0-9]+)?)?$/ : the strings of the model it matches.
rangePattern ==
  CellRefs \cup {a \o ":" : a \in CellRefs} \cup {a \o ":" \o b : a \in CellRefs, b \in CellRefs}
    \cup {"SHEET1"}

\* The try block catches the TypeError of undefined.toUpperCase().
isValidRange(rangeAddress) ==
  rangeAddress.t = "scalar" /\ ToUpperCase(rangeAddress.s) \in rangePattern

\* A read-only operation, up to its first await; isValidRange has none.
EnterRead(t, this, op, target, selection) ==
  /\ tasks' = [tasks EXCEPT ![t] =
       [IdleTask EXCEPT
          !.kind = "read", !.service = this,
          !.pc = IF op = "isValidRange" THEN "returned" ELSE "sync",
          !.preDoc = doc, !.preStack = undoStack[this],
          !.read = [NoRead EXCEPT
                      !.op = op, !.target = target, !.selection = selection,
                      !.result = IF op = "isValidRange"
                                   THEN [NoResult EXCEPT !.valid = isValidRange(target)]
                                   ELSE NoResult],
          !.prev = Summary(tasks[t])]]
  /\ UNCHANGED <<doc, undoStack, redoStack, nExec, nUndo, history, aiService>>

\* The range a read-only operation loads: worksheet.getRange(target), or
\* workbook.getSelectedRange().
ReadAddress(rd) ==
  CASE rd.op = "getCurrentContext" -> IF Truthy(rd.target) THEN rd.target.s ELSE rd.selection
    [] rd.op = "getRangeData" -> rd.target.s
    [] OTHER -> rd.selection

\* The first context.sync() of a read-only operation; it rejects an address
\* the sheet does not resolve, and Excel.run passes the rejection on.
ReadSync(t) ==
  LET tk == tasks[t]
      rd == tk.read
      src == ContextSource(doc, tk.prev.preDoc)
      fails == rd.op # "getSheetNames" /\ ~Resolvable(ReadAddress(rd))
      result ==
        CASE rd.op = "getCurrentContext" -> LoadContext(src, ReadAddress(rd))
          [] rd.op = "getSheetNames" -> LoadSheetNames(doc, NoResult)
          [] rd.op = "getRangeData" -> LoadRangeData(doc, ReadAddress(rd))
          [] rd.op = "getSelectionInfo" -> LoadSelectionInfo(doc, ReadAddress(rd))
  IN
  /\ tk.kind = "read" /\ tk.pc = "sync"
  /\ tasks' = [tasks EXCEPT ![t] =
       IF fails
         THEN [tk EXCEPT !.pc = "raised",
                         !.thrown = [type |-> "TargetResolutionError", step |-> 0,
                                     secondary |-> <<>>]]
         ELSE [tk EXCEPT !.pc = IF rd.op = "getCurrentContext" THEN "names" ELSE "returned",
                         !.read.result = result]]
  /\ UNCHANGED <<doc, undoStack, redoStack, nExec, nUndo, history, aiService>>

\* The second context.sync() of getCurrentContext, and its return.
ReadNames(t) ==
  LET tk == tasks[t]
      src == ContextSource(doc, tk.prev.preDoc)
  IN
  /\ tk.kind = "read" /\ tk.pc = "names"
  /\ tasks' = [tasks EXCEPT ![t] =
       [tk EXCEPT !.pc = "returned", !.read.result = LoadSheetNames(src, @)]]
  /\ UNCHANGED <<doc, undoStack, redoStack, nExec, nUndo, history, aiService>>

(***************************************************************************)
(* SpecRead: one caller, one call at a time: up to ReadCalls batches of    *)
(* up to ReadLen descriptors, up to ReadUndos undo calls, and any number   *)
(* of read-only calls between them.                                        *)
(***************************************************************************)
ReadDescriptors ==
  <<Op("cell_edit", "A1", Scalar("1"), NoOptions),
    Op("sheet_rename", "Sheet1", Scalar("Data"), NoOptions),
    Op("sheet_create", "", Scalar("Totals"), NoOptions),
    Op("cell_edit", "bad address", Scalar("2"), NoOptions)>>

ReadBatches ==
  {[k \in DOMAIN q |-> ReadDescriptors[q[k]]] : q \in SeqsUpTo(DOMAIN ReadDescriptors, ReadLen)}

\* The targetRange of getCurrentContext and the target of getRangeData.
ReadTargets == {Scalar("A1:A2"), Scalar("bad address")}

ContextTargets == ReadTargets \cup {Undefined, Scalar("")}

\* The arguments of isValidRange.
RangeInputs ==
  {Undefined, Scalar("a1:b2"), Scalar("A1:"), Scalar("Sheet1"), Scalar("bad address")}

\* The range the user holds selected, where the operation reads it.
Selections == {"A1:B1"}

ReadArguments ==
  {<<"getCurrentContext", target, IF Truthy(target) THEN "" ELSE selection>> :
     target \in ContextTargets, selection \in Selections}
  \cup {<<"getSheetNames", Undefined, "">>}
  \cup {<<"getRangeData", target, "">> : target \in ReadTargets}
  \cup {<<"getSelectionInfo", Undefined, selection>> : selection \in Selections}
  \cup {<<"isValidRange", target, "">> : target \in RangeInputs}

ReadExec(t) == \E operations \in ReadBatches : nExec < ReadCalls /\ StartExec(t, Main, operations)

ReadUndo(t) == nUndo < ReadUndos /\ StartUndo(t, Main)

ReadCall(t) ==
  \E call \in ReadArguments : Quiescent /\ EnterRead(t, Main, call[1], call[2], call[3])

NextRead ==
  \E t \in Tasks :
    \/ ReadExec(t) \/ Begin(t) \/ CalmStep(t) \/ CalmRevert(t) \/ ReadUndo(t) \/ CalmReplay(t)
    \/ ReadCall(t) \/ ReadSync(t) \/ ReadNames(t)

SpecRead == Init /\ [][NextRead]_vars

(***************************************************************************)
(* SpecUndoFail: one caller, one call at a time: up to FailCalls batches   *)
(* of up to FailLen descriptors on a host that refuses none of them, and   *)
(* up to FailUndos undo calls whose inverses the host may refuse.          *)
(***************************************************************************)
FailDescriptors ==
  <<Op("cell_edit", "A1", Scalar("1"), NoOptions),
    Op("formula", "A2", Scalar("=1"), NoOptions)>>

FailBatches ==
  {[k \in DOMAIN q |-> FailDescriptors[q[k]]] : q \in SeqsUpTo(DOMAIN FailDescriptors, FailLen)}

FailCall(t) == \E operations \in FailBatches : nExec < FailCalls /\ StartExec(t, Main, operations)

FailUndo(t) == nUndo < FailUndos /\ StartUndo(t, Main)

NextUndoFail ==
  \E t \in Tasks : FailCall(t) \/ Begin(t) \/ CalmStep(t) \/ FailUndo(t) \/ Replay(t)

SpecUndoFail == Init /\ [][NextUndoFail]_vars

(***************************************************************************)
(* SpecClear: one caller, one call at a time: up to ClearCalls batches of  *)
(* up to ClearLen conditional_format, filter, sort and cell_edit           *)
(* descriptors and up to ClearUndos undo calls, the host refusing nothing. *)
(***************************************************************************)
ClearDescriptors ==
  <<Op("conditional_format", "A1", Undefined, ChartOptions),
    Op("conditional_format", "A1:A2", Undefined, ChartOptions),
    Op("filter", "A1:B2", Undefined, ChartOptions),
    Op("sort", "A1:A2", Undefined, ChartOptions),
    Op("cell_edit", "A1:A2", Array(<<<<"3">>, <<"1">>>>), NoOptions)>>

ClearBatches ==
  {[k \in DOMAIN q |-> ClearDescriptors[q[k]]] : q \in SeqsUpTo(DOMAIN ClearDescriptors, ClearLen)}

ClearCall(t) ==
  \E operations \in ClearBatches : nExec < ClearCalls /\ StartExec(t, Main, operations)

ClearUndo(t) == nUndo < ClearUndos /\ StartUndo(t, Main)

NextClear ==
  \E t \in Tasks : ClearCall(t) \/ Begin(t) \/ CalmStep(t) \/ ClearUndo(t) \/ CalmReplay(t)

SpecClear == Init /\ [][NextClear]_vars

(***************************************************************************)
(* SpecSwitch: a workbook of two sheets, one batch of up to SwitchLen      *)
(* descriptors and an undo(), the host refusing nothing; the user may      *)
(* activate the other worksheet whenever no handler is running.            *)
(***************************************************************************)
SwitchDoc ==
  [sheets |-> <<InitDoc.sheets[1],
                [NewSheet(2, "Sheet2") EXCEPT !.cells[<<1, 1>>].content = "1"]>>,
   active |-> 1,
   nextId |-> 3]

InitSwitch ==
  /\ doc = SwitchDoc
  /\ undoStack = [this \in Instances |-> <<>>]
  /\ redoStack = [this \in Instances |-> <<>>]
  /\ tasks = [t \in Tasks |-> IdleTask]
  /\ nExec = 0
  /\ nUndo = 0
  /\ history = [on |-> TRUE, docs |-> <<doc>>, pushed |-> <<>>, popped |-> <<>>]
  /\ aiService = NewAIService

SwitchDescriptors ==
  <<Op("cell_edit", "A1", Scalar("3"), NoOptions),
    Op("formula", "A1", Scalar("=1"), NoOptions),
    Op("chart", "A1", Undefined, ChartOptions),
    Op("pivot_table", "A1", Undefined, ChartOptions),
    Op("cell_edit", "bad address", Scalar("2"), NoOptions)>>

SwitchBatches ==
  {[k \in DOMAIN q |-> SwitchDescriptors[q[k]]] : q \in SeqsUpTo(DOMAIN SwitchDescriptors, SwitchLen)}

SwitchCall(t) ==
  \E operations \in SwitchBatches : tasks[t].kind = "none" /\ StartExec(t, Main, operations)

\* The user clicks the tab of another worksheet.
Activate ==
  \E i \in 1..Len(doc.sheets) :
    /\ doc.sheets[i].id # doc.active
    /\ \A t \in DOMAIN tasks : tasks[t].pc # "await"
    /\ doc' = [doc EXCEPT !.active = doc.sheets[i].id]
    /\ UNCHANGED <<undoStack, redoStack, tasks, nExec, nUndo, history, aiService>>

NextSwitch ==
  \/ \E t \in Tasks :
       SwitchCall(t) \/ Begin(t) \/ CalmStep(t) \/ CalmRevert(t) \/ ChartUndo(t) \/ CalmReplay(t)
  \/ Activate

SpecSwitch == InitSwitch /\ [][NextSwitch]_vars

(***************************************************************************)
(* AIService: the connection state, ensureConnection and                   *)
(* processInstruction, and the caller that executes what it returns.       *)
(***************************************************************************)
\* What comes back for a request, as axios hands it on: a response of status
\* 200, a response of another 2xx status, an error with code ECONNREFUSED (or
\* ETIMEDOUT), an error of another kind.
Answers == {"200", "204", "ECONNREFUSED", "500"}

\* validateStatus: axios resolves a 2xx response and rejects the rest.
Resolves(answer) == answer \in {"200", "204"}

handleConnectionError(ai, answer) ==
  IF answer = "ECONNREFUSED" THEN [ai EXCEPT !.isConnected = FALSE] ELSE ai

\* The response interceptor of the client.
Intercept(ai, answer) ==
  IF Resolves(answer) THEN [ai EXCEPT !.isConnected = TRUE, !.connectionRetries = 0]
                      ELSE handleConnectionError(ai, answer)

\* checkConnection(), from the answer on: isConnected = (response.status ===
\* 200), or false in the catch block; it returns isConnected.
checkConnection(ai, answer) == [Intercept(ai, answer) EXCEPT !.isConnected = (answer = "200")]

\* ensureConnection, behind the await of checkConnection.
AfterCheck(ai) ==
  IF ai.isConnected THEN "post"
  ELSE IF ai.connectionRetries < ai.maxRetries THEN "waiting"
  ELSE "failed"

createFallbackResponse == [action |-> "error", excel_operations |-> <<>>, fallback |-> TRUE]

\* The bodies the server sends to POST /manice: operations to apply, a text
\* answer, nothing.
Bodies == {"operations", "text", "empty"}

ResponseData(body) ==
  IF body = "operations"
    THEN [action |-> "cell_edit",
          excel_operations |-> <<Op("cell_edit", "A1", Scalar("1"), NoOptions)>>,
          fallback |-> FALSE]
    ELSE [action |-> "text_response", excel_operations |-> <<>>, fallback |-> FALSE]

\* if (response.excel_operations && response.excel_operations.length > 0)
CallerNext(response) == IF Len(response.excel_operations) > 0 THEN "apply" ELSE "resolved"

\* A processInstruction without the catch block.
Rethrown(call, failure) == [call EXCEPT !.pc = "rejected", !.failure = failure]

\* catch (error) { return this.createFallbackResponse(...) }
Caught(call, failure) ==
  [call EXCEPT !.pc = CallerNext(createFallbackResponse), !.failure = failure,
               !.response = createFallbackResponse]

\* A caller asks: processInstruction(request), up to ensureConnection.
Ask ==
  /\ Quiescent
  /\ \/ aiService.call.pc \in {"idle", "resolved"}
     \/ aiService.call.pc = "apply" /\ nExec > aiService.call.nExec
  /\ aiService.requests < MaxRequests
  /\ aiService' = [aiService EXCEPT
                     !.requests = @ + 1,
                     !.call = [NoCall EXCEPT !.pc = "ensure", !.preDoc = doc,
                                             !.preStack = undoStack, !.nExec = nExec]]
  /\ UNCHANGED <<doc, undoStack, redoStack, tasks, nExec, nUndo, history>>

\* ensureConnection(): if (!this.isConnected) await this.checkConnection()
Ensure ==
  /\ aiService.call.pc = "ensure"
  /\ aiService' = [aiService EXCEPT
                     !.call.pc = IF aiService.isConnected THEN "post" ELSE "checking"]
  /\ UNCHANGED <<doc, undoStack, redoStack, tasks, nExec, nUndo, history>>

\* The checkConnection of ensureConnection has its answer.
Checked ==
  \E answer \in Answers :
    LET seen == checkConnection(aiService, answer)
        next == AfterCheck(seen)
    IN
    /\ aiService.call.pc = "checking"
    /\ next = "waiting" => aiService.call.retried < MaxRetried
    /\ aiService' =
         CASE next = "post" -> [seen EXCEPT !.call.pc = "post"]
           [] next = "waiting" ->
                [seen EXCEPT !.connectionRetries = @ + 1, !.call.retried = @ + 1,
                             !.call.pc = "waiting"]
           [] OTHER -> [seen EXCEPT !.call = Caught(@, "connect")]
    /\ UNCHANGED <<doc, undoStack, redoStack, tasks, nExec, nUndo, history>>

\* The wait before the retry is over: return this.ensureConnection()
Timer ==
  /\ aiService.call.pc = "waiting"
  /\ aiService' = [aiService EXCEPT !.call.pc = "ensure"]
  /\ UNCHANGED <<doc, undoStack, redoStack, tasks, nExec, nUndo, history>>

\* client.post('/manice', request) has its answer.
Posted ==
  \E answer \in Answers, body \in Bodies :
    LET seen == Intercept(aiService, answer) IN
    /\ aiService.call.pc = "post"
    /\ Resolves(answer) \/ body = "empty"
    /\ answer = "204" => body = "empty"
    /\ aiService' =
         IF ~Resolves(answer) THEN [seen EXCEPT !.call = Caught(@, "request")]
         ELSE IF body = "empty" THEN [seen EXCEPT !.call = Caught(@, "empty")]
         ELSE [seen EXCEPT !.call.response = ResponseData(body),
                           !.call.pc = CallerNext(ResponseData(body))]
    /\ UNCHANGED <<doc, undoStack, redoStack, tasks, nExec, nUndo, history>>

\* A checkConnection() of the constructor or of a ribbon command has its
\* answer.
Probe ==
  \E answer \in Answers :
    /\ aiService.probes < MaxProbes
    /\ aiService' = [checkConnection(aiService, answer) EXCEPT !.probes = @ + 1]
    /\ UNCHANGED <<doc, undoStack, redoStack, tasks, nExec, nUndo, history>>

\* await excelService.executeOperations(response.excel_operations)
Apply(t) ==
  /\ aiService.call.pc = "apply" /\ nExec = aiService.call.nExec
  /\ StartExec(t, Main, aiService.call.response.excel_operations)

NextAI ==
  \/ Ask \/ Ensure \/ Checked \/ Timer \/ Posted \/ Probe
  \/ \E t \in Tasks : Apply(t) \/ Begin(t) \/ CalmStep(t)

SpecAI == Init /\ [][NextAI]_vars

(***************************************************************************)
(* What the claims speak of.                                               *)
(***************************************************************************)
RangeTypes == OperationTypes \ {"sheet_rename", "sheet_create"}

FormatFields == {"font", "fill", "borders", "numberFormat"}

\* The ranges the first upto descriptors of ops address hold in d the
\* values, the formulas and the format fields set by the descriptors that
\* they hold in pre.
Restored(d, pre, ops, upto) ==
  \A k \in 1..upto :
    (ops[k].type \in RangeTypes /\ Resolvable(ops[k].target)) =>
      LET rc == getRange(ops[k].target)
          now == getActiveWorksheet(d)
          was == getActiveWorksheet(pre)
      IN /\ ReadValues(now, rc) = ReadValues(was, rc)
         /\ ReadFormulas(now, rc) = ReadFormulas(was, rc)
         /\ ops[k].type = "format" =>
              \A f \in FormatFields : \A p \in RectCells(rc) :
                ops[k].options[f] # "" => now.cells[p][f] = was.cells[p][f]

\* The steps of a list of inverses go down from its head to its tail.
Descending(undoOperations) ==
  \A a, b \in 1..Len(undoOperations) :
    a < b => undoOperations[a].step > undoOperations[b].step

\* C1: executeOperations(B) that returns, followed at once by undo(), leaves
\* every range B addressed with the values, formulas and touched format
\* fields it had before B.
RoundTripLaw ==
  \A t \in Tasks :
    LET tk == tasks[t] IN
    (tk.kind = "undo" /\ tk.pc = "returned" /\ tk.prev.kind = "exec" /\ tk.prev.pc = "returned")
      => Restored(doc, tk.prev.preDoc, tk.prev.ops, Len(tk.prev.ops))

\* C2: when step k > 1 of a batch raises, the ranges addressed by steps
\* 1..k-1 are back at their pre-batch state once executeOperations has
\* raised, and the error raised is the one of step k.
PartialFailureLaw ==
  \A t \in Tasks :
    LET tk == tasks[t] IN
    (tk.kind = "exec" /\ tk.pc = "raised" /\ tk.error.step > 1)
      => /\ Restored(doc, tk.preDoc, tk.ops, tk.error.step - 1)
         /\ tk.error.step = Len(tk.dispatched)
         /\ tk.error.type # "none"

\* C3: a batch that raises pushes nothing: from the raise of a handler to
\* the rethrow the undo stack is the one the call started with.
NoPushOnFailure ==
  \A t \in Tasks :
    LET tk == tasks[t] IN
    (tk.kind = "exec" /\ tk.pc \in {"catch", "raised"})
      => undoStack[tk.service] = tk.preStack /\ tk.pushed = 0

NoPushOnFailureWitness ==
  \E t \in Tasks :
    LET tk == tasks[t] IN
    /\ tk.kind = "exec" /\ tk.pc = "raised" /\ tk.error.step > 1
    /\ tk.preStack # <<>> /\ tk.invoked # <<>>

\* C4: the undo stack never holds more than maxUndoSteps entries, and no
\* call raises, the one that pushes on a full stack included.
CapacityInvariant ==
  /\ \A this \in Instances : Len(undoStack[this]) <= maxUndoSteps
  /\ \A t \in Tasks : tasks[t].pc # "raised"

CapacityWitness ==
  \E t \in Tasks :
    LET tk == tasks[t] IN
    /\ tk.kind = "exec" /\ tk.pc = "returned" /\ tk.pushed = 1
    /\ Len(tk.preStack) = maxUndoSteps /\ Len(undoStack[tk.service]) = maxUndoSteps

\* C5: a push on a full stack leaves the previous stack without its bottom
\* entry, followed by the new entry; any other push leaves the previous
\* stack followed by the new entry; the entries stand in push order.
EvictsOldest ==
  /\ \A t \in Tasks :
       LET tk == tasks[t] IN
       (tk.kind = "exec" /\ tk.pc = "returned" /\ tk.pushed = 1)
         => undoStack[tk.service] = (IF Len(tk.preStack) = maxUndoSteps THEN Tail(tk.preStack)
                                                             ELSE tk.preStack)
                          \o <<tk.undoOperations>>
  /\ \A this \in Instances : \A a, b \in 1..Len(undoStack[this]) :
       a < b => undoStack[this][a][1].batch < undoStack[this][b][1].batch

EvictsOldestWitness ==
  \E t \in Tasks :
    LET tk == tasks[t] IN
    /\ tk.kind = "exec" /\ tk.pc = "returned" /\ tk.pushed = 1
    /\ Len(tk.preStack) = maxUndoSteps
    /\ undoStack[tk.service][1] = tk.preStack[2]
    /\ undoStack[tk.service][maxUndoSteps] = tk.undoOperations
    /\ tk.preStack[1][1].batch \notin {undoStack[tk.service][a][1].batch : a \in 1..Len(undoStack[tk.service])}

\* C6: the turn of the loop on a descriptor of an unrecognised type leaves
\* the document and the list of inverses as they are, raises nothing and
\* goes on to the next descriptor.
NoOpLaw ==
  [][\A t \in Tasks :
       (tasks[t].kind = "exec" /\ tasks[t].pc = "await"
          /\ tasks[t].ops[tasks[t].i].type \notin OperationTypes)
         => /\ doc' = doc
            /\ tasks'[t].undoOperations = tasks[t].undoOperations
            /\ tasks'[t].error = NoError
            /\ tasks'[t].i = tasks[t].i + 1
            /\ tasks'[t].pc = IF tasks[t].i < Len(tasks[t].ops) THEN "loop" ELSE "returned"]_vars

NoOpLawWitness ==
  \E t \in Tasks :
    LET tk == tasks[t] IN
    /\ tk.kind = "exec" /\ tk.pc = "returned" /\ Len(tk.ops) = 2
    /\ tk.ops[1].type \notin OperationTypes /\ tk.ops[2].type \in OperationTypes
    /\ tk.dispatched = <<1, 2>>
    /\ Len(tk.undoOperations) = 1 /\ tk.undoOperations[1].step = 2
    /\ doc # tk.preDoc

\* C7 as claimed: every executeOperations call that returns has pushed one
\* entry.
OnePushPerReturn ==
  \A t \in Tasks :
    LET tk == tasks[t] IN
    (tk.kind = "exec" /\ tk.pc = "returned")
      => /\ tk.pushed = 1
         /\ Len(undoStack[tk.service]) = IF Len(tk.preStack) < maxUndoSteps THEN Len(tk.preStack) + 1
                                                                 ELSE maxUndoSteps

\* C7 as amended: a call that returns has pushed one entry, its list of
\* inverses, when it collected an inverse, and has left the stack alone when
\* it collected none, which is when the batch is empty or holds unrecognised
\* types only.
PushIffCollected ==
  \A t \in Tasks :
    LET tk == tasks[t] IN
    (tk.kind = "exec" /\ tk.pc = "returned")
      => /\ (tk.undoOperations = <<>>) <=> (\A k \in 1..Len(tk.ops) : tk.ops[k].type \notin OperationTypes)
         /\ IF tk.undoOperations # <<>>
              THEN /\ tk.pushed = 1
                   /\ undoStack[tk.service] = (IF Len(tk.preStack) < maxUndoSteps THEN tk.preStack
                                                                      ELSE Tail(tk.preStack))
                                    \o <<tk.undoOperations>>
              ELSE tk.pushed = 0 /\ undoStack[tk.service] = tk.preStack

PushIffCollectedWitness ==
  \E t \in Tasks :
    LET tk == tasks[t] IN
    /\ tk.kind = "exec" /\ tk.pc = "returned" /\ Len(tk.ops) > 0
    /\ tk.undoOperations = <<>> /\ tk.preStack # <<>> /\ undoStack[tk.service] = tk.preStack

\* C8: undo() on an empty stack returns without raising, calls no inverse
\* and leaves the document and the empty stack as they are.
UndoOnEmptyIsNoOp ==
  \A t \in Tasks :
    LET tk == tasks[t] IN
    (tk.kind = "undo" /\ tk.preStack = <<>>)
      => /\ tk.pc = "returned" /\ tk.error = NoError
         /\ tk.invoked = <<>>
         /\ doc = tk.preDoc
         /\ undoStack[tk.service] = <<>>

UndoOnEmptyWitness ==
  \E t \in Tasks :
    LET tk == tasks[t] IN
    /\ tk.kind = "undo" /\ tk.preStack = <<>> /\ tk.pc = "returned"
    /\ tk.prev.kind = "undo" /\ doc # InitDoc

\* C9: after batches B1..Bn that all returned and pushed their entry, k <= n
\* undo() calls leave the document as it was right after Bn-k and n-k
\* entries on the stack.
LifoAcrossBatches ==
  LET n == Len(history.docs) - 1
      k == nUndo
  IN (history.on /\ Quiescent /\ k <= n /\ n <= maxUndoSteps)
       => doc = history.docs[n - k + 1] /\ Len(undoStack[Main]) = n - k

\* C10 as claimed: undo() calls every inverse of the entry, the one of the
\* last operation first and the one of the first operation last.
ReplaysAllInReverse ==
  \A t \in Tasks :
    LET tk == tasks[t] IN
    (tk.kind = "undo" /\ tk.pc \in {"returned", "raised"})
      => tk.invoked = tk.undoOperations /\ Descending(tk.undoOperations)

\* C10 as amended: undo() calls the inverses of the entry in the reverse of
\* the order the operations were applied in, each at most once, all of them
\* when none raises; an inverse that raises is the last one called.
ReplaysInReverse ==
  /\ \A this \in Instances : \A a \in 1..Len(undoStack[this]) : Descending(undoStack[this][a])
  /\ \A t \in Tasks :
       LET tk == tasks[t] IN
       /\ tk.kind = "exec" =>
            /\ Descending(tk.undoOperations)
            /\ \A a \in 1..Len(tk.undoOperations) :
                 tk.undoOperations[a].step \in 1..Len(tk.dispatched)
       /\ tk.kind = "undo" =>
            /\ tk.invoked = SubSeq(tk.undoOperations, 1, Len(tk.invoked))
            /\ tk.pc = "returned" => tk.invoked = tk.undoOperations
            /\ tk.pc = "raised" =>
                 tk.invoked # <<>> /\ tk.error.step = tk.invoked[Len(tk.invoked)].step

ReplaysInReverseWitness ==
  \E t \in Tasks :
    LET tk == tasks[t] IN
    /\ tk.kind = "undo" /\ tk.pc = "returned"
    /\ Len(tk.invoked) = 2 /\ tk.invoked[1].step = 2 /\ tk.invoked[2].step = 1

\* The steps 1..n in their order.
Upto(n) == [k \in 1..n |-> k]

\* The steps of a list of inverses.
StepsOf(undoOperations) == {undoOperations[a].step : a \in 1..Len(undoOperations)}

ChartsOf(d) == UNION {d.sheets[i].charts : i \in 1..Len(d.sheets)}

PivotsOf(d) == UNION {d.sheets[i].pivots : i \in 1..Len(d.sheets)}

\* C11: an executeOperations call that raises throws the error of the
\* handler that raised, the step that was dispatched last, whether or not an
\* inverse of the rollback raised too.
OriginalErrorSurfaces ==
  \A t \in Tasks :
    LET tk == tasks[t] IN
    /\ (tk.kind = "exec" /\ tk.pc = "catch") => tk.error.type # "none" /\ tk.thrown = NoThrow
    /\ (tk.kind = "exec" /\ tk.pc = "raised")
         => /\ tk.error.type \in {"HandlerApplyError", "TargetResolutionError"}
            /\ tk.error.step = Len(tk.dispatched)
            /\ tk.thrown.type = tk.error.type
            /\ tk.thrown.step = tk.error.step

OriginalErrorSurfacesWitness ==
  \E t \in Tasks :
    LET tk == tasks[t] IN
    /\ tk.kind = "exec" /\ tk.pc = "raised"
    /\ Len(tk.invoked) = 2 /\ Len(tk.rollbackErrors) = 2
    /\ tk.thrown.type = "TargetResolutionError" /\ tk.thrown.step = 3

\* C12: the error an executeOperations call throws carries the error of
\* every inverse that raised during its rollback.
RollbackErrorsDelivered ==
  \A t \in Tasks :
    LET tk == tasks[t] IN
    (tk.kind = "exec" /\ tk.pc = "raised") => tk.thrown.secondary = tk.rollbackErrors

\* C13: when step k raises, the catch block calls the inverse of every step
\* before k that returned one, each once, the latest step first, and goes on
\* after an inverse that raised.
RollbackCompleteOrdered ==
  \A t \in Tasks :
    LET tk == tasks[t] IN
    /\ (tk.kind = "exec" /\ tk.pc = "catch")
         => /\ tk.invoked = SubSeq(tk.undoOperations, 1, tk.j - 1)
            /\ tk.j <= Len(tk.undoOperations)
    /\ (tk.kind = "exec" /\ tk.pc = "raised")
         => /\ tk.invoked = tk.undoOperations
            /\ Descending(tk.invoked)
            /\ StepsOf(tk.invoked) =
                 {k \in 1..(tk.error.step - 1) : tk.ops[k].type \in OperationTypes}
            /\ \A a \in 1..Len(tk.rollbackErrors) : tk.rollbackErrors[a] \in StepsOf(tk.invoked)

RollbackCompleteOrderedWitness ==
  \E t \in Tasks :
    LET tk == tasks[t] IN
    /\ tk.kind = "exec" /\ tk.pc = "raised" /\ tk.error.step = 3
    /\ Len(tk.invoked) = 2 /\ tk.invoked[1].step = 2 /\ tk.invoked[2].step = 1
    /\ tk.rollbackErrors = <<2>>
    /\ doc # tk.preDoc

\* C14: the step that raises leaves the document as it found it, and no
\* later descriptor of the batch is dispatched.
FailStopLaw ==
  [][\A t \in Tasks :
       /\ (tasks[t].kind = "exec" /\ tasks[t].pc = "await"
             /\ tasks'[t].pc \in {"catch", "raised"}) => doc' = doc
       /\ (tasks[t].kind = "exec" /\ tasks[t].pc \in {"catch", "raised"}
             /\ tasks'[t].kind = "exec" /\ tasks'[t].batch = tasks[t].batch)
            => tasks'[t].started = tasks[t].started]_vars

\* C15: the descriptors of a batch are dispatched in list order, each at
\* most once; a handler is called only when every handler called before it
\* has finished; a call that returns has dispatched every descriptor once.
DispatchedInOrder ==
  \A t \in Tasks :
    LET tk == tasks[t] IN
    tk.kind = "exec" =>
      /\ Len(tk.started) <= Len(tk.ops)
      /\ tk.started = Upto(Len(tk.started))
      /\ tk.dispatched = Upto(Len(tk.dispatched))
      /\ Len(tk.started) = Len(tk.dispatched) + (IF tk.pc = "await" THEN 1 ELSE 0)
      /\ tk.pc = "returned" => tk.dispatched = Upto(Len(tk.ops))
      /\ tk.pc \in {"catch", "raised"} => Len(tk.dispatched) = tk.error.step

DispatchedInOrderWitness ==
  \E t \in Tasks :
    LET tk == tasks[t] IN
    /\ tk.kind = "exec" /\ tk.pc = "await"
    /\ tk.started = <<1, 2, 3>> /\ tk.dispatched = <<1, 2>>
    /\ doc # tk.preDoc

\* C16: an undo() that follows a batch that pushed its entry, through
\* whichever instance either was called, runs that entry.
SingleUndoHistory ==
  \A t \in Tasks :
    LET tk == tasks[t] IN
    (tk.kind = "undo" /\ tk.prev.kind = "exec" /\ tk.prev.pc = "returned" /\ tk.prev.pushed = 1)
      => tk.undoOperations = tk.prev.undoOperations

\* What C17 says of a call that has ended, but for the entry of a call that
\* returned: a call that raised has been through the whole rollback loop.
EndedWhole(tk) ==
  /\ tk.pc = "returned" => tk.dispatched = Upto(Len(tk.ops)) /\ tk.invoked = <<>>
  /\ tk.pc = "raised" =>
       /\ Len(tk.dispatched) < Len(tk.ops) \/ tk.error.step = Len(tk.ops)
       /\ tk.invoked = tk.undoOperations
       /\ undoStack[tk.service] = tk.preStack

\* C17 as claimed: a call of executeOperations ends, and ends either
\* returned with every descriptor dispatched and an entry pushed, or raised
\* with the rollback loop run to its end.
TwoOutcomesPushed ==
  \A t \in Tasks :
    LET tk == tasks[t] IN
    tk.kind = "exec" =>
      /\ EndedWhole(tk)
      /\ tk.pc = "returned" => tk.pushed = 1

\* C17 as amended: a call of executeOperations ends, and ends either
\* returned with every descriptor dispatched, its entry pushed when it
\* collected an inverse, or raised with the rollback loop run to its end.
TwoOutcomes ==
  /\ [](\A t \in Tasks :
          LET tk == tasks[t] IN
          tk.kind = "exec" =>
            /\ EndedWhole(tk)
            /\ tk.pc = "returned" => (tk.pushed = 1 <=> tk.undoOperations # <<>>))
  /\ \A t \in Tasks :
       (tasks[t].kind = "exec") ~> (tasks[t].pc \in {"returned", "raised"})

TwoOutcomesWitness ==
  \E t \in Tasks :
    LET tk == tasks[t] IN
    /\ tk.kind = "exec" /\ tk.pc = "raised" /\ tk.error.step = 2 /\ Len(tk.ops) = 3
    /\ Len(tk.invoked) = 1 /\ tk.started = <<1, 2>>

\* The last row of a sheet that holds something.
LastUsedRow(sheet) ==
  LET used == {p[1] : p \in {q \in Cells : sheet.cells[q] # BlankCell}}
  IN IF used = {} THEN 0 ELSE CHOOSE r \in used : \A o \in used : o <= r

\* C18: after the batch that inserts at row 3 and the later batch that
\* deletes at row 3 the sheet has the rows it started with, each with the
\* content it started with; the first undo() gives the sheet as it was after
\* the insert, the second one the sheet it started with.
ScenarioCLaw ==
  LET first == history.docs[1] IN
  (Quiescent /\ nExec = 2 /\ \A t \in Tasks : tasks[t].pc = "returned")
    => /\ Len(history.docs) = 3
       /\ nUndo \in {0, 2} =>
            /\ doc = first
            /\ LastUsedRow(getActiveWorksheet(doc)) = LastUsedRow(getActiveWorksheet(first))
       /\ nUndo = 1 => doc = history.docs[2]

ScenarioCLawWitness ==
  /\ Quiescent /\ nExec = 2 /\ nUndo = 2
  /\ \A t \in Tasks : tasks[t].pc = "returned" /\ Len(tasks[t].invoked) = 1
  /\ Len(history.docs) = 3
  /\ history.docs[2] # history.docs[1]
  /\ LastUsedRow(getActiveWorksheet(history.docs[2])) = 4
  /\ doc = history.docs[1]

\* C19: the inverse of a chart creation takes from the document the chart
\* of the id it captured and nothing else, and the inverse of a pivot table
\* creation the pivot table of the id it captured and nothing else.
InverseRemovesItsObject ==
  [][\A t \in Tasks :
       LET tk == tasks[t] IN
       (tk.pc \in {"catch", "undoing"} /\ tasks'[t].j = tk.j + 1) =>
         LET undoOp == tk.undoOperations[tk.j] IN
         /\ undoOp.handler = "createChart" =>
              /\ undoOp.id \in ChartsOf(doc)
              /\ ChartsOf(doc') = ChartsOf(doc) \ {undoOp.id}
              /\ PivotsOf(doc') = PivotsOf(doc)
         /\ undoOp.handler = "createPivotTable" =>
              /\ undoOp.id \in {pt.id : pt \in PivotsOf(doc)}
              /\ PivotsOf(doc') = {pt \in PivotsOf(doc) : pt.id # undoOp.id}
              /\ ChartsOf(doc') = ChartsOf(doc)]_vars

InverseRemovesItsObjectWitness ==
  \E t \in Tasks :
    LET tk == tasks[t] IN
    /\ tk.invoked # <<>>
    /\ LET undoOp == tk.invoked[Len(tk.invoked)] IN
       /\ undoOp.handler = "createChart"
       /\ undoOp.id \notin ChartsOf(doc)
       /\ \E before, after \in ChartsOf(doc) : before < undoOp.id /\ undoOp.id < after

LastUsedColumn(sheet) ==
  LET used == {p[2] : p \in {q \in Cells : sheet.cells[q] # BlankCell}}
  IN IF used = {} THEN 0 ELSE CHOOSE c \in used : \A o \in used : o <= c

\* The count a descriptor of an insert asks for: its value, 1 when it has none.
CountOf(value) ==
  CASE value.t = "scalar" /\ value.s = "2" -> 2
    [] value.t = "scalar" /\ value.s = "3" -> 3
    [] OTHER -> 1

\* C21: an insert_row (insert_column) of value n that returns has put n rows
\* (columns) in at the target, 1 when it has no value: the used rows
\* (columns) of a sheet with content at or behind the target grow by that
\* count, and the inverse takes as many away.
InsertCountLaw ==
  [][\A t \in Tasks :
       LET tk == tasks[t]
           before == getActiveWorksheet(doc)
           after == getActiveWorksheet(doc')
       IN
       /\ (tk.kind = "exec" /\ tk.pc = "await" /\ tasks'[t].pc \in {"loop", "returned"}) =>
            LET operation == tk.ops[tk.i]
                n == CountOf(operation.value)
            IN /\ (operation.type = "insert_row"
                     /\ LastUsedRow(before) >= getRange(operation.target).top)
                    => LastUsedRow(after) = LastUsedRow(before) + n
               /\ (operation.type = "insert_column"
                     /\ LastUsedColumn(before) >= getRange(operation.target).left)
                    => LastUsedColumn(after) = LastUsedColumn(before) + n
       /\ (tk.kind = "undo" /\ tk.pc = "undoing" /\ tasks'[t].pc \in {"undoing", "returned"}) =>
            LET undoOp == tk.undoOperations[tk.j]
                n == CountOf(tk.prev.ops[undoOp.step].value)
            IN /\ (undoOp.handler = "insertRows"
                     /\ LastUsedRow(before) >= getRange(undoOp.target).top + n)
                    => LastUsedRow(after) = LastUsedRow(before) - n
               /\ (undoOp.handler = "insertColumns"
                     /\ LastUsedColumn(before) >= getRange(undoOp.target).left + n)
                    => LastUsedColumn(after) = LastUsedColumn(before) - n]_vars

\* What the cells of a sheet hold: the formula of a formula cell, the value
\* of any other.
Contents(sheet) == [p \in Cells |-> sheet.cells[p].content]

DeleteTypes == {"delete_row", "delete_column"}

\* C23: undo() after a batch of delete_row / delete_column descriptors that
\* returned leaves every cell of the sheet, in the deleted region and beyond
\* it, with the value or formula it held before the batch; after a batch of
\* one deletion the cells outside its target are the cells they were.
DeleteUndoRestores ==
  \A t \in Tasks :
    LET tk == tasks[t]
        now == getActiveWorksheet(doc)
        was == getActiveWorksheet(tk.prev.preDoc)
    IN
    (tk.kind = "undo" /\ tk.pc = "returned"
       /\ tk.prev.kind = "exec" /\ tk.prev.pc = "returned" /\ tk.prev.ops # <<>>
       /\ \A k \in 1..Len(tk.prev.ops) : tk.prev.ops[k].type \in DeleteTypes)
      => /\ Contents(now) = Contents(was)
         /\ Len(tk.invoked) = Len(tk.prev.ops)
         /\ Len(tk.prev.ops) = 1 =>
              \A p \in Cells \ RectCells(getRange(tk.prev.ops[1].target)) :
                now.cells[p] = was.cells[p]

DeleteUndoRestoresWitness ==
  \E t \in Tasks :
    LET tk == tasks[t]
        now == getActiveWorksheet(doc)
        was == getActiveWorksheet(tk.prev.preDoc)
    IN
    /\ tk.kind = "undo" /\ tk.pc = "returned" /\ Len(tk.invoked) = 2
    /\ tk.prev.kind = "exec" /\ tk.prev.pc = "returned" /\ Len(tk.prev.ops) = 2
    /\ tk.prev.ops[1].type = "delete_row" /\ tk.prev.ops[1].target = "A1:B1"
    /\ tk.prev.ops[2].type = "delete_column"
    /\ IsFormula(was.cells[<<1, 1>>].content) /\ IsFormula(was.cells[<<2, 2>>].content)
    /\ was.cells[<<1, 2>>].content = "1"
    /\ Contents(now) = Contents(was)

\* C24: undo() after a batch of one cell_edit or one formula write that
\* returned leaves every cell of the target with what it held before the
\* write: the formula of a cell that held a formula, the value of a cell that
\* held a value.
InverseRestoresContent ==
  \A t \in Tasks :
    LET tk == tasks[t] IN
    (tk.kind = "undo" /\ tk.pc = "returned"
       /\ tk.prev.kind = "exec" /\ tk.prev.pc = "returned" /\ Len(tk.prev.ops) = 1
       /\ tk.prev.ops[1].type \in {"cell_edit", "formula"})
      => \A p \in RectCells(getRange(tk.prev.ops[1].target)) :
           Contents(getActiveWorksheet(doc))[p] = Contents(getActiveWorksheet(tk.prev.preDoc))[p]

\* C25: undo() after a batch of one format descriptor that returned leaves
\* every field the options set, numberFormat included, as it was before the
\* batch on every cell of the target.
FormatUndoRestores ==
  \A t \in Tasks :
    LET tk == tasks[t] IN
    (tk.kind = "undo" /\ tk.pc = "returned"
       /\ tk.prev.kind = "exec" /\ tk.prev.pc = "returned" /\ Len(tk.prev.ops) = 1
       /\ tk.prev.ops[1].type = "format")
      => \A f \in FormatFields : \A p \in RectCells(getRange(tk.prev.ops[1].target)) :
           tk.prev.ops[1].options[f] # "" =>
             getActiveWorksheet(doc).cells[p][f] = getActiveWorksheet(tk.prev.preDoc).cells[p][f]

\* The names of the sheets of the workbook, in its order.
\* C26: the inverse of a sheet_rename gives the sheet its former name, and
\* after batches of renames that all returned, k undo() calls leave the list
\* of sheet names as it was before the last k batches, several renames of
\* one sheet in a batch or in consecutive batches included.
RenameRoundTrip ==
  LET n == Len(history.docs) - 1
      k == nUndo
  IN
  /\ (history.on /\ Quiescent /\ k <= n)
       => SheetNameList(doc) = SheetNameList(history.docs[n - k + 1])
  /\ \A t \in Tasks :
       LET tk == tasks[t] IN
       (tk.kind = "undo" /\ tk.pc = "returned" /\ tk.prev.kind = "exec"
          /\ tk.prev.pc = "returned" /\ tk.prev.pushed = 1)
         => SheetNameList(doc) = SheetNameList(tk.prev.preDoc)

RenameRoundTripWitness ==
  \E t \in Tasks :
    LET tk == tasks[t] IN
    /\ history.on /\ Quiescent /\ nUndo = 2 /\ Len(history.docs) = 3
    /\ tk.kind = "undo" /\ tk.pc = "returned" /\ Len(tk.invoked) = 2
    /\ SheetNameList(history.docs[2])[1] = "Totals"
    /\ SheetNameList(history.docs[3])[1] = "Sheet1"
    /\ SheetNameList(doc) = <<"Sheet1", "Sheet2">>

SheetIds(d) == {d.sheets[i].id : i \in 1..Len(d.sheets)}

\* C27: the inverse of a sheet_create takes from the workbook the sheet its
\* operation added, and no other sheet, whatever was renamed or created
\* since.
CreateInverseDeletesItsSheet ==
  [][\A t \in Tasks :
       LET tk == tasks[t] IN
       (tk.pc \in {"catch", "undoing"} /\ tasks'[t].j = tk.j + 1) =>
         LET undoOp == tk.undoOperations[tk.j] IN
         undoOp.handler = "createSheet" =>
           /\ SheetIds(doc) \ SheetIds(doc') \subseteq {undoOp.made}
           /\ undoOp.made \in SheetIds(doc) => undoOp.made \notin SheetIds(doc')]_vars

\* What the inverse undoOp holds is what the range rc of sheet reads as,
\* for the fields the handler of a descriptor of that type captures.
HoldsStateOf(undoOp, type, sheet, rc) ==
  /\ type \in {"cell_edit", "sort", "delete_row", "delete_column"}
       => undoOp.values = ReadValues(sheet, rc)
  /\ type \in {"formula", "delete_row", "delete_column"}
       => undoOp.formulas = ReadFormulas(sheet, rc)
  /\ type = "format"
       => /\ undoOp.font = ReadFormat(sheet, rc, "font")
          /\ undoOp.fill = ReadFormat(sheet, rc, "fill")
          /\ undoOp.borders = ReadFormat(sheet, rc, "borders")

\* C28: a handler that takes a snapshot has loaded it in a step before the
\* one that commits its write, and the inverse it returns holds the state
\* its target had right before that write, which for a later descriptor of a
\* batch is the state the descriptors before it left.
ReadBeforeWrite ==
  [][\A t \in Tasks :
       LET tk == tasks[t] IN
       (tk.kind = "exec" /\ tk.pc = "await" /\ tk.ops[tk.i].type \in LoadTypes
          /\ tasks'[t].pc \in {"loop", "returned"})
         => /\ tk.loaded = doc
            /\ Len(tasks'[t].undoOperations) = Len(tk.undoOperations) + 1
            /\ HoldsStateOf(tasks'[t].undoOperations[1], tk.ops[tk.i].type,
                            getActiveWorksheet(doc), getRange(tk.ops[tk.i].target))]_vars

ReadBeforeWriteWitness ==
  \E t \in Tasks :
    LET tk == tasks[t] IN
    /\ tk.kind = "exec" /\ tk.pc = "returned" /\ Len(tk.ops) = 2
    /\ tk.ops[1].type = "cell_edit" /\ tk.ops[1].target = "A1"
    /\ tk.ops[2].type = "formula" /\ tk.ops[2].target = "A1"
    /\ getActiveWorksheet(tk.preDoc).cells[<<1, 1>>].content = "=2"
    /\ tk.undoOperations[1].formulas = <<<<"1">>>>
    /\ tk.undoOperations[2].values = <<<<"2">>>>
    /\ getActiveWorksheet(doc).cells[<<1, 1>>].content = "=3"

NoDuplicates(seq) == \A a, b \in 1..Len(seq) : a # b => seq[a] # seq[b]

Range(seq) == {seq[a] : a \in 1..Len(seq)}

\* The batches whose entry is on a stack.
BatchesOn(stack) == {stack[a][1].batch : a \in 1..Len(stack)}

\* The batches whose entry was pushed and is neither on a stack nor popped.
Evicted ==
  Range(history.pushed)
    \ (UNION {BatchesOn(undoStack[this]) : this \in Instances} \cup Range(history.popped))

\* C22: an entry is pushed once and popped at most once; an entry that was
\* popped or evicted is on no stack again; undo() calls the inverses of the
\* entry it popped, each at most once, and no inverse of an evicted entry;
\* two undo() calls in flight hold different entries.
EntryLifecycle ==
  LET onStack == UNION {BatchesOn(undoStack[this]) : this \in Instances}
      popped == Range(history.popped)
  IN
  /\ NoDuplicates(history.pushed) /\ NoDuplicates(history.popped)
  /\ onStack \subseteq Range(history.pushed) /\ popped \subseteq Range(history.pushed)
  /\ onStack \cap popped = {}
  /\ \A this \in Instances : \A a, b \in 1..Len(undoStack[this]) :
       a # b => undoStack[this][a][1].batch # undoStack[this][b][1].batch
  /\ \A b \in Evicted : \A c \in onStack : b < c
  /\ \A t \in DOMAIN tasks :
       LET tk == tasks[t] IN
       tk.kind = "undo" =>
         /\ Len(tk.invoked) <= Len(tk.undoOperations)
         /\ tk.invoked = SubSeq(tk.undoOperations, 1, Len(tk.invoked))
         /\ \A a \in 1..Len(tk.undoOperations) :
              tk.undoOperations[a].batch \in popped \ Evicted
         /\ \A o \in DOMAIN tasks \ {t} :
              (tasks[o].kind = "undo" /\ tk.undoOperations # <<>>
                 /\ tasks[o].undoOperations # <<>>)
                => tasks[o].undoOperations[1].batch # tk.undoOperations[1].batch

EntryLifecycleWitness ==
  /\ nExec = CapBatches
  /\ Evicted = {1, 2}
  /\ history.popped = <<CapBatches, CapBatches - 1>>
  /\ \A t \in DOMAIN tasks : tasks[t].kind = "undo" /\ tasks[t].pc = "undoing"
  /\ Len(undoStack[Main]) = maxUndoSteps - 2

\* The batch b has returned, every descriptor of it dispatched, none raised.
Completed(b) ==
  \E t \in DOMAIN tasks :
    LET tk == tasks[t] IN
    /\ tk.kind = "exec" /\ tk.batch = b /\ tk.pc = "returned"
    /\ tk.dispatched = Upto(Len(tk.ops)) /\ tk.error = NoError

\* C30: an undo() that runs while an executeOperations call is suspended
\* inside its batch does nothing or calls the inverses of the entry of a
\* batch that has returned, never an inverse the batch in flight collected;
\* every entry on the undo stack is the list of inverses of a batch that
\* has returned with all its operations applied.
UndoSeesCompletedBatches ==
  /\ \A this \in Instances : \A a \in 1..Len(undoStack[this]) :
       /\ undoStack[this][a] # <<>>
       /\ \A k \in 1..Len(undoStack[this][a]) : Completed(undoStack[this][a][k].batch)
  /\ \A u \in DOMAIN tasks :
       tasks[u].kind = "undo" =>
         /\ tasks[u].preStack = <<>> => tasks[u].pc = "returned" /\ tasks[u].invoked = <<>>
         /\ tasks[u].preStack # <<>> =>
              tasks[u].undoOperations = tasks[u].preStack[Len(tasks[u].preStack)]
         /\ \A k \in 1..Len(tasks[u].undoOperations) :
              /\ Completed(tasks[u].undoOperations[k].batch)
              /\ \A e \in DOMAIN tasks :
                   (tasks[e].kind = "exec" /\ tasks[e].pc \in {"loop", "await", "catch"})
                     => tasks[u].undoOperations[k].batch # tasks[e].batch

UndoSeesCompletedBatchesWitness ==
  \E e, u, f \in DOMAIN tasks :
    /\ tasks[e].kind = "exec" /\ tasks[e].pc = "await" /\ tasks[e].i = 2
    /\ Len(tasks[e].undoOperations) = 1
    /\ tasks[f].kind = "exec" /\ tasks[f].pc = "returned" /\ tasks[f].batch < tasks[e].batch
    /\ tasks[u].kind = "undo" /\ tasks[u].pc = "returned" /\ Len(tasks[u].invoked) = 2
    /\ tasks[u].undoOperations[1].batch = tasks[f].batch
    /\ undoStack[Main] = <<>> /\ doc # tasks[u].preDoc

\* C29: a step of getCurrentContext, getSheetNames, getRangeData,
\* getSelectionInfo or isValidRange leaves the document and the stacks as
\* they are, and a read-only call that returns leaves them as they were at
\* its call; the context getCurrentContext returns, after any sequence of
\* executeOperations and undo calls, holds the values and formulas the target
\* range has, the name the active sheet has and the list of sheet names the
\* workbook has at that moment.
ReadsChangeNothingAndAreCurrent ==
  [][\A t \in Tasks :
       (tasks'[t].kind = "read" /\ tasks'[t] # tasks[t]) =>
         LET tk == tasks'[t]
             rd == tk.read
             sheet == getActiveWorksheet(doc')
         IN
         /\ doc' = doc /\ undoStack' = undoStack /\ redoStack' = redoStack
         /\ tk.pc \in {"returned", "raised"} =>
              doc' = tk.preDoc /\ undoStack'[tk.service] = tk.preStack
         /\ (rd.op = "getCurrentContext" /\ tk.pc = "returned") =>
              /\ rd.result.values = ReadValues(sheet, getRange(ReadAddress(rd)))
              /\ rd.result.formulas = ReadFormulas(sheet, getRange(ReadAddress(rd)))
              /\ rd.result.sheet_name = sheet.name
              /\ rd.result.sheets = SheetNameList(doc')]_vars

ReadsChangeNothingAndAreCurrentWitness ==
  \E t \in Tasks :
    /\ tasks[t].kind = "read" /\ tasks[t].pc = "returned"
    /\ tasks[t].read.op = "getCurrentContext" /\ tasks[t].read.target = Scalar("A1:A2")
    /\ tasks[t].prev.kind = "undo" /\ nExec = 2
    /\ tasks[t].read.result.sheet_name = "Data"
    /\ tasks[t].read.result.formulas = <<<<"2">>, <<"3">>>>
    /\ tasks[t].read.result.sheets = <<"Data">>
    /\ undoStack[Main] # <<>>

\* The steps of a list of inverses, in the order of the list.
StepList(undoOperations) == [k \in 1..Len(undoOperations) |-> undoOperations[k].step]

\* n, n - 1, ..., 1
DownFrom(n) == [k \in 1..n |-> n + 1 - k]

\* C31: when executeOperations calls on one service overlap, the list a call
\* holds has inverses of its own operations only, one for each operation it
\* has applied, newest first; a call that returned with all its operations
\* applied pushed one entry, which is that list; a call that failed called
\* inverses of its own list only, each once, and pushed nothing.
OwnInversesOnly ==
  /\ \A t \in DOMAIN tasks :
       LET tk == tasks[t] IN
       tk.kind = "exec" =>
         /\ \A k \in 1..Len(tk.undoOperations) : tk.undoOperations[k].batch = tk.batch
         /\ StepList(tk.undoOperations) =
              DownFrom(IF tk.error = NoError THEN Len(tk.dispatched) ELSE Len(tk.dispatched) - 1)
         /\ tk.invoked = SubSeq(tk.undoOperations, 1, Len(tk.invoked))
         /\ (tk.pc = "returned" /\ tk.ops # <<>>) =>
              /\ Len(tk.undoOperations) = Len(tk.ops) /\ tk.invoked = <<>>
              /\ Cardinality({k \in 1..Len(history.pushed) : history.pushed[k] = tk.batch}) = 1
              /\ \/ tk.batch \in Range(history.popped)
                 \/ \E a \in 1..Len(undoStack[tk.service]) :
                      undoStack[tk.service][a] = tk.undoOperations
         /\ tk.pc # "returned" => tk.batch \notin Range(history.pushed)
         /\ tk.pc = "raised" => tk.invoked = tk.undoOperations
  /\ \A this \in Instances : \A a \in 1..Len(undoStack[this]) :
       \E t \in DOMAIN tasks :
         tasks[t].kind = "exec" /\ tasks[t].pc = "returned"
           /\ undoStack[this][a] = tasks[t].undoOperations

OwnInversesOnlyWitness ==
  \E e, f \in DOMAIN tasks :
    /\ tasks[e].kind = "exec" /\ tasks[e].pc = "returned" /\ Len(tasks[e].ops) = 2
    /\ tasks[f].kind = "exec" /\ tasks[f].pc = "raised" /\ Len(tasks[f].invoked) = 1
    /\ tasks[f].batch < tasks[e].batch
    /\ tasks[e].preDoc = tasks[f].preDoc
    /\ undoStack[Main] = <<tasks[e].undoOperations>>

\* C32: undo() takes the top entry off the stack before it calls it; when
\* an inverse of the entry raises, the older inverses behind it are not
\* called, undo() raises that error, and the entry stays off the stack, which
\* is one shorter than at the call though part of the batch stands.
UndoStopsAtFirstRaise ==
  \A t \in Tasks :
    LET tk == tasks[t]
        n == Len(tk.invoked)
    IN
    (tk.kind = "undo" /\ tk.preStack # <<>>) =>
      /\ tk.undoOperations = tk.preStack[Len(tk.preStack)]
      /\ undoStack[tk.service] = SubSeq(tk.preStack, 1, Len(tk.preStack) - 1)
      /\ tk.invoked = SubSeq(tk.undoOperations, 1, n)
      /\ tk.error # NoError =>
           /\ tk.pc = "raised" /\ tk.error.type = "UndoError"
           /\ n >= 1 /\ tk.error.step = tk.invoked[n].step
      /\ tk.pc = "raised" => tk.error # NoError
      /\ tk.pc = "returned" => n = Len(tk.undoOperations)

UndoStopsAtFirstRaiseWitness ==
  \E t \in Tasks :
    /\ tasks[t].kind = "undo" /\ tasks[t].pc = "raised"
    /\ Len(tasks[t].undoOperations) = 3 /\ Len(tasks[t].invoked) = 2
    /\ Len(tasks[t].preStack) = 2 /\ Len(undoStack[Main]) = 1
    /\ doc # tasks[t].preDoc

\* C33: the inverse of conditional_format leaves no conditional format on
\* any cell of its range, those that were there before the operation
\* included; the inverse of filter leaves the sheet without autofilter; the
\* inverse of sort leaves the range with the values it loaded, and once
\* undo() has returned the range of a sort of the batch has the values it
\* had before the batch.
InversesClearOrRestore ==
  [][\A t \in Tasks :
       LET tk == tasks'[t]
           n == Len(tk.invoked)
           sheet == getActiveWorksheet(doc')
       IN
       (tk.kind = "undo" /\ tasks[t].kind = "undo" /\ n = Len(tasks[t].invoked) + 1
          /\ tk.error = NoError) =>
         LET undoOp == tk.invoked[n]
             undoRange == getRange(undoOp.target)
         IN
         /\ undoOp.handler = "addConditionalFormatting" =>
              \A p \in RectCells(undoRange) : sheet.cells[p].cf = 0
         /\ undoOp.handler = "applyFilter" => sheet.filter = ""
         /\ undoOp.handler = "sortRange" => ReadValues(sheet, undoRange) = undoOp.values
         /\ (tk.pc = "returned" /\ tk.prev.kind = "exec" /\ tk.prev.pushed = 1) =>
              \A k \in 1..Len(tk.prev.ops) :
                tk.prev.ops[k].type = "sort" =>
                  ReadValues(sheet, getRange(tk.prev.ops[k].target))
                    = ReadValues(getActiveWorksheet(tk.prev.preDoc),
                                 getRange(tk.prev.ops[k].target))]_vars

InversesClearOrRestoreWitness ==
  \E t \in Tasks :
    LET tk == tasks[t] IN
    /\ tk.kind = "undo" /\ tk.pc = "returned" /\ Len(tk.invoked) = 2
    /\ tk.invoked[1].handler = "addConditionalFormatting"
    /\ tk.invoked[2].handler = "sortRange"
    /\ getActiveWorksheet(tk.prev.preDoc).cells[<<1, 1>>].cf = 1
    /\ getActiveWorksheet(tk.preDoc).cells[<<1, 1>>].cf = 2
    /\ getActiveWorksheet(doc).cells[<<1, 1>>].cf = 0
    /\ ReadValues(getActiveWorksheet(tk.preDoc), getRange("A1:A2")) = <<<<"1">>, <<"3">>>>
    /\ ReadValues(getActiveWorksheet(doc), getRange("A1:A2")) = <<<<"3">>, <<"1">>>>
    /\ Len(undoStack[Main]) = 1

\* C34: an inverse called by undo() or by the catch block works on the
\* worksheet that is active when it runs and on no other, whatever sheet its
\* operation was applied on and whatever the sheet holds: the inverse of a
\* cell_edit or formula leaves the values or formulas it captured in the
\* range of that sheet, and the inverse of a chart or pivot_table deletes
\* the object of its id from that sheet and raises when the sheet has none.
InverseUsesActiveSheet ==
  [][\A t \in Tasks :
       LET tk == tasks'[t]
           n == Len(tk.invoked)
           act == ActiveIndex(doc)
           raised == tk.error # tasks[t].error \/ tk.rollbackErrors # tasks[t].rollbackErrors
       IN
       (tasks[t].kind = tk.kind /\ n = Len(tasks[t].invoked) + 1) =>
         LET undoOp == tk.invoked[n]
             undoRange == getRange(undoOp.target)
         IN
         /\ doc'.active = doc.active
         /\ \A i \in 1..Len(doc.sheets) : i # act => doc'.sheets[i] = doc.sheets[i]
         /\ raised => doc' = doc
         /\ (undoOp.handler = "setCellValue" /\ ~raised) =>
              ReadValues(doc'.sheets[act], undoRange) = undoOp.values
         /\ (undoOp.handler = "setFormula" /\ ~raised) =>
              ReadFormulas(doc'.sheets[act], undoRange) = undoOp.formulas
         /\ undoOp.handler = "createChart" =>
              /\ raised <=> undoOp.id \notin doc.sheets[act].charts
              /\ undoOp.id \notin doc'.sheets[act].charts
         /\ undoOp.handler = "createPivotTable" =>
              /\ raised <=> undoOp.id \notin {pt.id : pt \in doc.sheets[act].pivots}
              /\ undoOp.id \notin {pt.id : pt \in doc'.sheets[act].pivots}]_vars

InverseUsesActiveSheetWitness ==
  \E t \in Tasks :
    LET tk == tasks[t] IN
    /\ tk.kind = "undo" /\ tk.pc = "returned" /\ Len(tk.invoked) = 1
    /\ tk.invoked[1].handler = "setCellValue" /\ tk.invoked[1].appliedOn = 1
    /\ doc.active = 2
    /\ doc.sheets[1].cells[<<1, 1>>].content = "3"
    /\ tk.preDoc.sheets[2].cells[<<1, 1>>].content = "1"
    /\ doc.sheets[2].cells[<<1, 1>>].content = "2"

\* C35: processInstruction never rejects; a call that failed, the server out
\* of reach, the request in error or the response empty, resolves to the
\* fallback response, of action 'error' and no operations, and its caller
\* calls no executeOperations: the document and the undo stacks are as they
\* were when the caller asked.
ProcessInstructionFallsBack ==
  LET call == aiService.call IN
  /\ call.pc # "rejected"
  /\ call.response.fallback <=> call.failure # "none"
  /\ call.failure # "none" =>
       /\ call.pc = "resolved"
       /\ call.response.action = "error" /\ call.response.excel_operations = <<>>
       /\ doc = call.preDoc /\ undoStack = call.preStack /\ nExec = call.nExec
       /\ Quiescent

ProcessInstructionFallsBackWitness ==
  /\ aiService.call.pc = "resolved" /\ aiService.call.failure = "connect"
  /\ aiService.connectionRetries = 3 /\ aiService.requests = 2
  /\ nExec = 1 /\ Len(undoStack[Main]) = 1

\* C36: connectionRetries is never above maxRetries, and no ensureConnection
\* call goes into more than maxRetries retries before it returns or raises.
EnsureConnectionBounded ==
  /\ aiService.connectionRetries <= aiService.maxRetries
  /\ aiService.call.retried <= aiService.maxRetries

====
